---- MODULE Spec2Model ----
(***************************************************************************)
(* Dungeons & Daemons: the turn engine.                                    *)
(*                                                                         *)
(* AIManager.get_ai_response (the Connected/Fallback mode and the          *)
(* default fill), AIManager._get_fallback_response (the keyword narrator), *)
(* DungeonsAndDaemons.update_game_state (hp, location, inventory, history) *)
(* and the game loop that runs one turn after the other.                   *)
(*                                                                         *)
(* Python values are tagged records [t, v]: t is the Python type after     *)
(* json.loads ("null", "num", "str", "arr", "obj"); v is the value. An     *)
(* object's v is a function from its keys to tagged values, an array's v a *)
(* sequence of strings. Text is TLA+ strings, so that "word in action" is  *)
(* a substring test as in Python.                                          *)
(***************************************************************************)
EXTENDS Integers, Sequences, FiniteSets, TLC

VARIABLES
    setup_failed,    \* whether AIManager.__init__ found no usable backend
    fallback_mode,   \* AIManager.fallback_mode
    game_state,      \* DungeonsAndDaemons.game_state (GameState with its Character)
    settings,        \* SettingsManager.settings (max_history_turns, auto_save)
    pc,              \* position of run_game_loop: "playing", "over" or "menu"
    turns,           \* number of loop iterations that resolved a turn
    user_input,      \* run_game_loop's local: the input of the last turn
    backend_reply,   \* what self.chain.invoke answered (or would answer) in the last turn
    was_fallback,    \* fallback_mode at entry of the last get_ai_response call
    ai_response,     \* run_game_loop's local: what get_ai_response returned
    prev_state,      \* game_state at entry of the last turn
    raised,          \* whether the last update_game_state raised (caught by the loop)
    dice,            \* the last call of the dice engine: its arguments and its outcome
    saved,           \* the save file of the character
    loaded           \* what the last GameState.load_from_json returned and printed

vars == <<setup_failed, fallback_mode, game_state, settings, pc, turns, user_input,
          backend_reply, was_fallback, ai_response, prev_state, raised, dice,
          saved, loaded>>

----------------------------------------------------------------------------
\* Bounds of the model.

\* Turns resolved in one session.
MaxTurns == 2

\* settings.max_history_turns ranges over 1..MaxHistoryTurns.
MaxHistoryTurns == 2

----------------------------------------------------------------------------
\* Python strings.

UpperLetters == "ABCDEFGHIJKLMNOPQRSTUVWXYZ"
LowerLetters == "abcdefghijklmnopqrstuvwxyz"
Digits       == "0123456789"

\* The lower-case letter of every upper-case letter.
LowerOf ==
    [c \in {SubSeq(UpperLetters, i, i) : i \in 1..Len(UpperLetters)} |->
        LET i == CHOOSE j \in 1..Len(UpperLetters) : SubSeq(UpperLetters, j, j) = c
        IN  SubSeq(LowerLetters, i, i)]

\* str.lower() on one character.
Lower1(c) == IF c \in DOMAIN LowerOf THEN LowerOf[c] ELSE c

\* str.lower(): every character lowered, the text taken by halves.
RECURSIVE lower(_)
lower(s) ==
    IF Len(s) <= 1 THEN Lower1(s)
    ELSE LET half == Len(s) \div 2
         IN  lower(SubSeq(s, 1, half)) \o lower(SubSeq(s, half + 1, Len(s)))

RECURSIVE lstrip(_)
lstrip(s) ==
    IF s # "" /\ SubSeq(s, 1, 1) = " " THEN lstrip(SubSeq(s, 2, Len(s))) ELSE s

RECURSIVE rstrip(_)
rstrip(s) ==
    IF s # "" /\ SubSeq(s, Len(s), Len(s)) = " "
    THEN rstrip(SubSeq(s, 1, Len(s) - 1)) ELSE s

\* str.strip()
strip(s) == rstrip(lstrip(s))

\* Python's "word in text" on strings: a substring test.
StrContains(text, word) ==
    \E i \in 1..(Len(text) - Len(word) + 1) : SubSeq(text, i, i + Len(word) - 1) = word

\* Python's "x in list".
InList(x, list) == \E i \in 1..Len(list) : list[i] = x

----------------------------------------------------------------------------
\* Python values after json.loads.

Null   == [t |-> "null", v |-> "None"]
Num(n) == [t |-> "num", v |-> n]
Str(s) == [t |-> "str", v |-> s]
Arr(a) == [t |-> "arr", v |-> a]
Obj(f) == [t |-> "obj", v |-> f]

\* What self.chain.invoke does: raise, or return a text that json.loads rejects,
\* or return a text that json.loads turns into a value.
ChainRaises == [t |-> "raise", v |-> "Exception"]
NotJson     == [t |-> "text", v |-> "JSONDecodeError"]

\* Python truth value.
Truthy(x) ==
    CASE x.t = "null" -> FALSE
      [] x.t = "num"  -> x.v # 0
      [] x.t = "str"  -> x.v # ""
      [] x.t = "arr"  -> x.v # <<>>
      [] x.t = "obj"  -> DOMAIN x.v # {}

\* dict.get(key, default) on an object.
Get(obj, key, default) == IF key \in DOMAIN obj.v THEN obj.v[key] ELSE default

----------------------------------------------------------------------------
\* DiceResult and DiceRoller

\* sum(rolls)
RECURSIVE Sum(_)
Sum(rolls) == IF rolls = <<>> THEN 0 ELSE Head(rolls) + Sum(Tail(rolls))

\* DiceResult.__init__
DiceResult(rolls, dice_type, modifier) ==
    [rolls      |-> rolls,
     dice_type  |-> dice_type,
     modifier   |-> modifier,
     total      |-> Sum(rolls) + modifier,
     roll_count |-> Len(rolls)]

\* A test that looks at the first die and not at the number of dice.
is_critical_hit_first_die(result) ==
    result.dice_type = 20 /\ result.roll_count >= 1 /\ result.rolls[1] = 20

is_critical_hit(result) ==
    result.dice_type = 20 /\ result.roll_count = 1 /\ result.rolls[1] = 20

is_critical_fail(result) ==
    result.dice_type = 20 /\ result.roll_count = 1 /\ result.rolls[1] = 1

is_max_roll(result) == \A i \in 1..Len(result.rolls) : result.rolls[i] = result.dice_type

is_min_roll(result) == \A i \in 1..Len(result.rolls) : result.rolls[i] = 1

\* What a call returns: a value, or an exception that leaves no value.
Returns(value) == [raised |-> FALSE, value |-> value]
Raises(error)  == [raised |-> TRUE, error |-> error]

\* The lists [random.randint(1, sides) for _ in range(count)] can be; the
\* comprehension is not reached when roll_dice raises.
RandintLists(count, sides) ==
    IF count <= 0 \/ sides <= 0 THEN {<<>>} ELSE [1..count -> 1..sides]

\* A roll_dice that rolls no die instead of raising.
roll_dice_no_check(count, sides, modifier, rolls) ==
    Returns(DiceResult(rolls, sides, modifier))

\* rolls is the outcome of the random.randint calls, one of RandintLists(count, sides).
roll_dice(count, sides, modifier, rolls) ==
    IF count <= 0 \/ sides <= 0
    THEN Raises("ValueError")
    ELSE Returns(DiceResult(rolls, sides, modifier))

IsDigit(c) == \E i \in 1..Len(Digits) : SubSeq(Digits, i, i) = c

DigitValue(c) == (CHOOSE i \in 1..Len(Digits) : SubSeq(Digits, i, i) = c) - 1

\* int(s) of a text of digits.
RECURSIVE int(_)
int(s) ==
    IF s = "" THEN 0
    ELSE int(SubSeq(s, 1, Len(s) - 1)) * 10 + DigitValue(SubSeq(s, Len(s), Len(s)))

\* notation.replace(" ", "")
RECURSIVE RemoveSpaces(_)
RemoveSpaces(s) ==
    IF s = "" THEN ""
    ELSE (IF SubSeq(s, 1, 1) = " " THEN "" ELSE SubSeq(s, 1, 1))
            \o RemoveSpaces(SubSeq(s, 2, Len(s)))

\* What a greedy \d+ takes at the start of s: the length of its run of digits.
RECURSIVE DigitRun(_)
DigitRun(s) ==
    IF s # "" /\ IsDigit(SubSeq(s, 1, 1)) THEN 1 + DigitRun(SubSeq(s, 2, Len(s))) ELSE 0

\* re.match(r'(?:(\d+))?d(\d+)(?:([+-])(\d+))?', s): the groups of the match at
\* the start of s, "" for a group that took no part; what follows the match is
\* not looked at.
ReMatch(s) ==
    LET n1    == DigitRun(s)
        rest1 == SubSeq(s, n1 + 2, Len(s))
        n2    == DigitRun(rest1)
        rest2 == SubSeq(rest1, n2 + 1, Len(rest1))
        n4    == DigitRun(SubSeq(rest2, 2, Len(rest2)))
        tail  == rest2 # "" /\ SubSeq(rest2, 1, 1) \in {"+", "-"} /\ n4 >= 1
    IN  IF n1 < Len(s) /\ SubSeq(s, n1 + 1, n1 + 1) = "d" /\ n2 >= 1
        THEN [match |-> TRUE,
              group1 |-> SubSeq(s, 1, n1),
              group2 |-> SubSeq(rest1, 1, n2),
              group3 |-> IF tail THEN SubSeq(rest2, 1, 1) ELSE "",
              group4 |-> IF tail THEN SubSeq(rest2, 2, n4 + 1) ELSE ""]
        ELSE [match |-> FALSE]

parse_dice_notation(notation) ==
    LET s == lower(RemoveSpaces(notation))
        m == ReMatch(s)
    IN  IF ~m.match
        THEN Raises("ValueError")
        ELSE Returns(<<IF m.group1 # "" THEN int(m.group1) ELSE 1,
                       int(m.group2),
                       IF m.group3 # "" /\ m.group4 # ""
                       THEN (IF m.group3 = "+" THEN int(m.group4) ELSE -int(m.group4))
                       ELSE 0>>)

stat_names ==
    <<"Strength", "Dexterity", "Constitution", "Intelligence", "Wisdom", "Charisma">>

StatNameSet == {stat_names[i] : i \in 1..Len(stat_names)}

array_values == <<15, 14, 13, 12, 10, 8>>

\* An empty dict.
EmptyDict == [k \in {} |-> 0]

\* The least of a list of dice.
Lowest(rolls) == CHOOSE x \in {rolls[i] : i \in 1..Len(rolls)} :
                    \A i \in 1..Len(rolls) : x <= rolls[i]

\* sum(sorted(rolls, reverse=True)[:3]) of four dice: all but one lowest die.
DropLowest(rolls) == Sum(rolls) - Lowest(rolls)

\* A roll_stats whose "array" branch stops at the pass statement.
roll_stats_array_unassigned(method, rolls) ==
    IF method \in {"4d6_drop_lowest", "3d6", "point_buy"}
    THEN [stat \in StatNameSet |->
             CASE method = "4d6_drop_lowest" -> DropLowest(rolls[stat])
               [] method = "3d6"             -> Sum(SubSeq(rolls[stat], 1, 3))
               [] method = "point_buy"       -> 8]
    ELSE EmptyDict

\* DiceRoller.roll_stats: rolls[stat] are the dice that random.randint gives
\* for stat (the first three of them for three dice).
roll_stats(method, rolls) ==
    IF method = "array"
    THEN [stat \in StatNameSet |->
             array_values[CHOOSE i \in 1..Len(stat_names) : stat_names[i] = stat]]
    ELSE IF method \in {"4d6_drop_lowest", "3d6", "point_buy"}
    THEN [stat \in StatNameSet |->
             CASE method = "4d6_drop_lowest" -> DropLowest(rolls[stat])
               [] method = "3d6"             -> Sum(SubSeq(rolls[stat], 1, 3))
               [] method = "point_buy"       -> 8]
    ELSE EmptyDict

\* MenuSystem._assign_standard_array
assign_standard_array ==
    [Strength |-> 15, Dexterity |-> 14, Constitution |-> 13,
     Intelligence |-> 12, Wisdom |-> 10, Charisma |-> 8]

\* MenuSystem._point_buy_system
point_buy_system ==
    [Strength |-> 13, Dexterity |-> 14, Constitution |-> 13,
     Intelligence |-> 12, Wisdom |-> 12, Charisma |-> 10]

\* MenuSystem._roll_stats_with_dice: four dice and the lowest dropped for
\* "4d6_drop_lowest", three dice for every other method.
roll_stats_with_dice(method, rolls) ==
    [stat \in StatNameSet |->
        IF method = "4d6_drop_lowest" THEN DropLowest(rolls[stat])
        ELSE Sum(SubSeq(rolls[stat], 1, 3))]

\* MenuSystem._roll_ability_scores
roll_ability_scores(method, rolls) ==
    IF method = "array" THEN assign_standard_array
    ELSE IF method = "point_buy" THEN point_buy_system
    ELSE roll_stats_with_dice(method, rolls)

----------------------------------------------------------------------------
\* Character and GameState persistence (game_state.py)

Max(a, b) == IF a >= b THEN a ELSE b

\* Python's "x or default" on a list or a dict: an empty one is falsy. The
\* empty list and the empty dict are both the empty function.
OrDefault(x, default) == IF x = <<>> THEN default ELSE x

\* A modifier that rounds toward zero.
get_modifier_truncated(ability_score) ==
    IF ability_score >= 10 THEN (ability_score - 10) \div 2
    ELSE 0 - ((10 - ability_score) \div 2)

\* DiceRoller.get_modifier: Python's // rounds toward negative infinity, as
\* \div does.
get_modifier(ability_score) == (ability_score - 10) \div 2

\* Character.get_ability_modifier
get_ability_modifier(ability_score) == (ability_score - 10) \div 2

\* Character.get_stat_modifiers
get_stat_modifiers(c) ==
    [Strength     |-> get_ability_modifier(c.strength),
     Dexterity    |-> get_ability_modifier(c.dexterity),
     Constitution |-> get_ability_modifier(c.constitution),
     Intelligence |-> get_ability_modifier(c.intelligence),
     Wisdom       |-> get_ability_modifier(c.wisdom),
     Charisma     |-> get_ability_modifier(c.charisma)]

\* The skill_to_ability table of Character.get_skill_modifier.
skill_to_ability ==
    ("Acrobatics" :> "Dexterity") @@ ("Animal Handling" :> "Wisdom") @@
    ("Arcana" :> "Intelligence") @@ ("Athletics" :> "Strength") @@
    ("Deception" :> "Charisma") @@ ("History" :> "Intelligence") @@
    ("Insight" :> "Wisdom") @@ ("Intimidation" :> "Charisma") @@
    ("Investigation" :> "Intelligence") @@ ("Medicine" :> "Wisdom") @@
    ("Nature" :> "Intelligence") @@ ("Perception" :> "Wisdom") @@
    ("Performance" :> "Charisma") @@ ("Persuasion" :> "Charisma") @@
    ("Religion" :> "Intelligence") @@ ("Sleight of Hand" :> "Dexterity") @@
    ("Stealth" :> "Dexterity") @@ ("Survival" :> "Wisdom")

\* A skill modifier that adds the proficiency bonus to every skill.
get_skill_modifier_always_proficient(c, skill) ==
    LET ability == IF skill \in DOMAIN skill_to_ability
                   THEN skill_to_ability[skill] ELSE "Strength"
    IN  get_stat_modifiers(c)[ability] + c.proficiency_bonus

\* Character.get_skill_modifier
get_skill_modifier(c, skill) ==
    LET ability  == IF skill \in DOMAIN skill_to_ability
                    THEN skill_to_ability[skill] ELSE "Strength"
        modifier == get_stat_modifiers(c)[ability]
    IN  IF InList(skill, c.skill_proficiencies)
        THEN modifier + c.proficiency_bonus
        ELSE modifier

\* A level_up that gains 5 + constitution modifier, be it zero or less.
level_up_no_floor(c) ==
    LET level   == c.level + 1
        hp_gain == 5 + get_stat_modifiers(c)["Constitution"]
    IN  [c EXCEPT !.level = level,
                  !.proficiency_bonus = 2 + ((level - 1) \div 4),
                  !.max_hp = c.max_hp + hp_gain,
                  !.hp = c.hp + hp_gain]

\* Character.level_up
level_up(c) ==
    LET level   == c.level + 1
        hp_gain == Max(1, 5 + get_stat_modifiers(c)["Constitution"])
    IN  [c EXCEPT !.level = level,
                  !.proficiency_bonus = 2 + ((level - 1) \div 4),
                  !.max_hp = c.max_hp + hp_gain,
                  !.hp = c.hp + hp_gain]

\* The defaults of Character.__init__ for an empty inventory, an empty list
\* of saving throws and an empty equipment dict. None is the text "None".
default_saving_throws == <<"Strength", "Constitution">>
default_inventory     == <<"Backpack", "Bedroll", "Rations (5 days)">>
default_equipment     ==
    [armor |-> "Leather Armor", weapon |-> "Longsword", shield |-> "Shield",
     tools |-> <<>>]

\* Character.__init__ on the keyword arguments a: every caller (from_dict,
\* create_new_game) passes all of them.
Character(a) ==
    LET con_modifier == get_ability_modifier(a.constitution)
        recompute    == a.hp = 100 /\ a.max_hp = 100
    IN  [name             |-> a.name,
         race             |-> a.race,
         character_class  |-> a.character_class,
         level            |-> a.level,
         background       |-> a.background,
         alignment        |-> a.alignment,
         strength         |-> a.strength,
         dexterity        |-> a.dexterity,
         constitution     |-> a.constitution,
         intelligence     |-> a.intelligence,
         wisdom           |-> a.wisdom,
         charisma         |-> a.charisma,
         max_hp           |-> IF recompute THEN Max(1, 8 + con_modifier) ELSE a.max_hp,
         hp               |-> IF recompute THEN Max(1, 8 + con_modifier) ELSE a.hp,
         armor_class      |-> a.armor_class,
         proficiency_bonus |-> a.proficiency_bonus,
         skill_proficiencies        |-> OrDefault(a.skill_proficiencies, <<>>),
         saving_throw_proficiencies |-> OrDefault(a.saving_throw_proficiencies,
                                                  default_saving_throws),
         inventory        |-> OrDefault(a.inventory, default_inventory),
         equipment        |-> OrDefault(a.equipment, default_equipment),
         experience_points |-> a.experience_points,
         gold_pieces      |-> a.gold_pieces]

\* Character.to_dict: every attribute under its own key.
to_dict(c) ==
    [name             |-> c.name,
     race             |-> c.race,
     character_class  |-> c.character_class,
     level            |-> c.level,
     background       |-> c.background,
     alignment        |-> c.alignment,
     strength         |-> c.strength,
     dexterity        |-> c.dexterity,
     constitution     |-> c.constitution,
     intelligence     |-> c.intelligence,
     wisdom           |-> c.wisdom,
     charisma         |-> c.charisma,
     hp               |-> c.hp,
     max_hp           |-> c.max_hp,
     armor_class      |-> c.armor_class,
     proficiency_bonus |-> c.proficiency_bonus,
     skill_proficiencies        |-> c.skill_proficiencies,
     saving_throw_proficiencies |-> c.saving_throw_proficiencies,
     inventory        |-> c.inventory,
     equipment        |-> c.equipment,
     experience_points |-> c.experience_points,
     gold_pieces      |-> c.gold_pieces]

\* dict.get(key, default) on a dict that is a function of its keys.
DictGet(data, key, default) == IF key \in DOMAIN data THEN data[key] ELSE default

\* The keys that Character.from_dict reads with data[key].
character_keys == {"name", "hp", "max_hp"}

\* The arguments that from_dict passes to the constructor.
FromDictArgs(data) ==
    [name             |-> data["name"],
     race             |-> DictGet(data, "race", "Human"),
     character_class  |-> DictGet(data, "character_class", "Fighter"),
     level            |-> DictGet(data, "level", 1),
     background       |-> DictGet(data, "background", "Folk Hero"),
     alignment        |-> DictGet(data, "alignment", "Neutral Good"),
     strength         |-> DictGet(data, "strength", 10),
     dexterity        |-> DictGet(data, "dexterity", 10),
     constitution     |-> DictGet(data, "constitution", 10),
     intelligence     |-> DictGet(data, "intelligence", 10),
     wisdom           |-> DictGet(data, "wisdom", 10),
     charisma         |-> DictGet(data, "charisma", 10),
     hp               |-> data["hp"],
     max_hp           |-> data["max_hp"],
     armor_class      |-> DictGet(data, "armor_class", 10),
     proficiency_bonus |-> DictGet(data, "proficiency_bonus", 2),
     skill_proficiencies        |-> DictGet(data, "skill_proficiencies", <<>>),
     saving_throw_proficiencies |-> DictGet(data, "saving_throw_proficiencies", <<>>),
     inventory        |-> DictGet(data, "inventory", <<>>),
     equipment        |-> DictGet(data, "equipment", EmptyDict),
     experience_points |-> DictGet(data, "experience_points", 0),
     gold_pieces      |-> DictGet(data, "gold_pieces", 0)]

\* A from_dict that reads hp and max_hp with a default of 100.
from_dict_lenient(data) ==
    IF "name" \notin DOMAIN data THEN Raises("KeyError")
    ELSE Returns(Character(FromDictArgs(
             [k \in DOMAIN data \cup {"hp", "max_hp"} |->
                 IF k \in DOMAIN data THEN data[k] ELSE 100])))

\* Character.from_dict
from_dict(data) ==
    IF \E k \in character_keys : k \notin DOMAIN data
    THEN Raises("KeyError")
    ELSE Returns(Character(FromDictArgs(data)))

\* GameState.__init__
GameState(player, story_history, current_location, max_history_turns) ==
    [player            |-> player,
     story_history     |-> OrDefault(story_history, <<>>),
     current_location  |-> current_location,
     max_history_turns |-> max_history_turns]

\* The save file: missing, not JSON, or the JSON object data.
NoFile          == [kind |-> "missing"]
CorruptFile     == [kind |-> "garbage"]
JsonFile(data)  == [kind |-> "json", data |-> data]

\* GameState.save_to_json: the file it writes.
save_to_json(gs) ==
    JsonFile([player            |-> to_dict(gs.player),
              story_history     |-> gs.story_history,
              current_location  |-> gs.current_location,
              max_history_turns |-> gs.max_history_turns])

\* No game: self.game_state is None.
None == Null

\* What load_from_json returns and what it prints.
Loaded(value, printed) == [value |-> value, printed |-> printed]

\* GameState.load_from_json: a missing file is None without a message; a
\* file that is no JSON or lacks a key read with [] prints the error and is
\* None as well.
load_from_json(file) ==
    IF file.kind = "missing" THEN Loaded(None, "")
    ELSE IF file.kind = "garbage" THEN Loaded(None, "Error loading save file")
    ELSE IF "player" \notin DOMAIN file.data
    THEN Loaded(None, "Error loading save file")
    ELSE LET player == from_dict(file.data["player"])
         IN  IF player.raised THEN Loaded(None, "Error loading save file")
             ELSE Loaded(GameState(player.value,
                                   DictGet(file.data, "story_history", <<>>),
                                   DictGet(file.data, "current_location", "Unknown"),
                                   DictGet(file.data, "max_history_turns", 10)),
                         "")

----------------------------------------------------------------------------
\* Character creation (character_data.py, menu_system.py)

RaceNames       == {"Human", "Elf", "Dwarf", "Halfling", "Dragonborn", "Tiefling"}
ClassNames      == {"Fighter", "Wizard", "Rogue", "Cleric", "Ranger", "Barbarian"}
BackgroundNames == {"Acolyte", "Criminal", "Folk Hero", "Noble", "Hermit", "Soldier"}

\* RACES[race].stat_bonuses[stat], 0 where the race has no bonus for stat.
stat_bonuses(race, stat) ==
    CASE race = "Human"      -> 1
      [] race = "Elf"        -> IF stat = "Dexterity" THEN 2 ELSE 0
      [] race = "Dwarf"      -> IF stat = "Constitution" THEN 2 ELSE 0
      [] race = "Halfling"   -> IF stat = "Dexterity" THEN 2 ELSE 0
      [] race = "Dragonborn" -> IF stat = "Strength" THEN 2
                                ELSE IF stat = "Charisma" THEN 1 ELSE 0
      [] race = "Tiefling"   -> IF stat = "Intelligence" THEN 1
                                ELSE IF stat = "Charisma" THEN 2 ELSE 0

\* apply_racial_bonuses, for a race of RACES
apply_racial_bonuses(stats, race) ==
    [stat \in DOMAIN stats |-> stats[stat] + stat_bonuses(race, stat)]

\* CLASSES[name].hit_die
hit_die ==
    [Fighter |-> 10, Wizard |-> 6, Rogue |-> 8, Cleric |-> 8, Ranger |-> 10,
     Barbarian |-> 12]

\* CLASSES[name].saving_throw_proficiencies
class_saving_throws ==
    [Fighter   |-> <<"Strength", "Constitution">>,
     Wizard    |-> <<"Intelligence", "Wisdom">>,
     Rogue     |-> <<"Dexterity", "Intelligence">>,
     Cleric    |-> <<"Wisdom", "Charisma">>,
     Ranger    |-> <<"Strength", "Dexterity">>,
     Barbarian |-> <<"Strength", "Constitution">>]

\* CLASSES[name].skill_proficiencies[:2]
class_skills ==
    [Fighter   |-> <<"Acrobatics", "Animal Handling">>,
     Wizard    |-> <<"Arcana", "History">>,
     Rogue     |-> <<"Acrobatics", "Athletics">>,
     Cleric    |-> <<"History", "Insight">>,
     Ranger    |-> <<"Animal Handling", "Athletics">>,
     Barbarian |-> <<"Animal Handling", "Athletics">>]

\* BACKGROUNDS[name].skill_proficiencies
background_skills ==
    ("Acolyte"   :> <<"Insight", "Religion">>) @@
    ("Criminal"  :> <<"Deception", "Stealth">>) @@
    ("Folk Hero" :> <<"Animal Handling", "Survival">>) @@
    ("Noble"     :> <<"History", "Persuasion">>) @@
    ("Hermit"    :> <<"Medicine", "Religion">>) @@
    ("Soldier"   :> <<"Athletics", "Intimidation">>)

\* BACKGROUNDS[name].equipment[:3]
background_equipment ==
    ("Acolyte"   :> <<"Holy symbol", "Prayer book", "Incense">>) @@
    ("Criminal"  :> <<"Crowbar", "Dark clothes with hood", "Gaming set">>) @@
    ("Folk Hero" :> <<"Artisan's tools", "Shovel", "Smith's tools">>) @@
    ("Noble"     :> <<"Fine clothes", "Signet ring", "Scroll of pedigree">>) @@
    ("Hermit"    :> <<"Herbalism kit", "Scroll of spiritual writings", "Winter blanket">>) @@
    ("Soldier"   :> <<"Rank insignia", "Trophy from fallen enemy", "Playing cards">>)

\* calculate_starting_hp
calculate_starting_hp(character_class, constitution_modifier) ==
    IF character_class \notin DOMAIN hit_die THEN 8
    ELSE hit_die[character_class] + constitution_modifier

\* The con_modifier and dex_modifier of _finalize_character.
inline_modifier(score) == (score - 10) \div 2

\* A finalization that gives every class the eight hit points of the default.
finalize_character_d8(character_data) ==
    LET con_modifier == inline_modifier(character_data.constitution)
        dex_modifier == inline_modifier(character_data.dexterity)
        max_hp       == 8 + con_modifier
        armor_class  == 10 + dex_modifier
        cls          == character_data.character_class
    IN  [level             |-> 1,
         hp                |-> max_hp,
         max_hp            |-> max_hp,
         armor_class       |-> armor_class + 1,
         proficiency_bonus |-> 2,
         skill_proficiencies |->
             class_skills[cls] \o background_skills[character_data.background],
         saving_throw_proficiencies |-> class_saving_throws[cls],
         inventory         |-> default_inventory
                                 \o background_equipment[character_data.background],
         equipment         |->
             [armor  |-> "Leather Armor",
              weapon |-> IF cls = "Fighter" THEN "Longsword" ELSE "Dagger",
              shield |-> IF cls \in {"Fighter", "Cleric"} THEN "Shield" ELSE "None",
              tools  |-> <<>>],
         experience_points |-> 0,
         gold_pieces       |-> 100,
         alignment         |-> "Neutral Good"]

\* MenuSystem._finalize_character: the keys it adds to character_data.
finalize_character(character_data) ==
    LET con_modifier == inline_modifier(character_data.constitution)
        dex_modifier == inline_modifier(character_data.dexterity)
        max_hp       == hit_die[character_data.character_class] + con_modifier
        armor_class  == 10 + dex_modifier
        cls          == character_data.character_class
    IN  [level             |-> 1,
         hp                |-> max_hp,
         max_hp            |-> max_hp,
         armor_class       |-> armor_class + 1,
         proficiency_bonus |-> 2,
         skill_proficiencies |->
             class_skills[cls] \o background_skills[character_data.background],
         saving_throw_proficiencies |-> class_saving_throws[cls],
         inventory         |-> default_inventory
                                 \o background_equipment[character_data.background],
         equipment         |->
             [armor  |-> "Leather Armor",
              weapon |-> IF cls = "Fighter" THEN "Longsword" ELSE "Dagger",
              shield |-> IF cls \in {"Fighter", "Cleric"} THEN "Shield" ELSE "None",
              tools  |-> <<>>],
         experience_points |-> 0,
         gold_pieces       |-> 100,
         alignment         |-> "Neutral Good"]

\* MenuSystem.show_character_creation when the player goes through all nine
\* steps: the character_data it returns.
show_character_creation(name, method, rolls, race, character_class, background) ==
    LET final_stats == apply_racial_bonuses(roll_ability_scores(method, rolls), race)
        chosen == [name            |-> name,
                   race            |-> race,
                   strength        |-> final_stats["Strength"],
                   dexterity       |-> final_stats["Dexterity"],
                   constitution    |-> final_stats["Constitution"],
                   intelligence    |-> final_stats["Intelligence"],
                   wisdom          |-> final_stats["Wisdom"],
                   charisma        |-> final_stats["Charisma"],
                   character_class |-> character_class,
                   background      |-> background]
    IN  finalize_character(chosen) @@ chosen

\* The initial_prompt of create_new_game; ToString is Python's str of an int.
initial_prompt(character_data) ==
    "Start a new D&D-style fantasy RPG adventure for " \o character_data.name
    \o ", a " \o character_data.race \o " " \o character_data.character_class
    \o " with the " \o character_data.background \o " background. "
    \o "Character stats: STR " \o ToString(character_data.strength)
    \o ", DEX " \o ToString(character_data.dexterity)
    \o ", CON " \o ToString(character_data.constitution)
    \o ", INT " \o ToString(character_data.intelligence)
    \o ", WIS " \o ToString(character_data.wisdom)
    \o ", CHA " \o ToString(character_data.charisma) \o ". "
    \o "They begin in a village square, having just arrived to start their adventuring career. "
    \o "Create an engaging opening scenario that reflects their background and abilities, "
    \o "setting up meaningful choices and potential for adventure."

\* The choices of character creation: names the name step accepts, the four
\* methods of the method step, and dice that are the same for the six stats.
CharacterNames  == {"Aria"}
CreationMethods == {"4d6_drop_lowest", "3d6", "array", "point_buy"}
CreationRolls   ==
    {[stat \in StatNameSet |-> r] : r \in {<<6, 6, 6, 6>>, <<1, 1, 1, 1>>}}

CreatedCharacters ==
    {show_character_creation(name, method, rolls, race, cls, background) :
        name \in CharacterNames, method \in CreationMethods, rolls \in CreationRolls,
        race \in RaceNames, cls \in ClassNames, background \in BackgroundNames}

InitialPrompts == {initial_prompt(character_data) : character_data \in CreatedCharacters}

----------------------------------------------------------------------------
\* The texts the player types.

\* What get_user_input returns: a stripped, non-empty text that is no command.
UserInputs == {"I attack the goblin", "heal", "Go North", "dance"}

\* Texts that have keywords of more than one group, of the explore group, and
\* of no group, in mixed case.
ResolverInputs ==
    {"Fight, then drink and go", "HIT the potion", "Drink and explore",
     "Look east", "search", "use potion", "Travel west", "sing"}

InputTexts == UserInputs \cup ResolverInputs

----------------------------------------------------------------------------
\* AIManager

required_keys == <<"narrative", "location", "hp_change", "items_added", "items_removed">>

RequiredKeySet == {required_keys[i] : i \in 1..Len(required_keys)}

\* A fill that takes the empty string for a missing location.
get_default_value_blank(key) ==
    CASE key = "narrative"     -> Str("The adventure continues...")
      [] key = "location"      -> Str("")
      [] key = "hp_change"     -> Num(0)
      [] key = "items_added"   -> Arr(<<>>)
      [] key = "items_removed" -> Arr(<<>>)
      [] OTHER                 -> Str("")

get_default_value(key) ==
    CASE key = "narrative"     -> Str("The adventure continues...")
      [] key = "location"      -> Str("Unknown")
      [] key = "hp_change"     -> Num(0)
      [] key = "items_added"   -> Arr(<<>>)
      [] key = "items_removed" -> Arr(<<>>)
      [] OTHER                 -> Str("")

AttackWords  == {"attack", "fight", "hit", "strike"}
HealWords    == {"heal", "potion", "drink", "use potion"}
ExploreWords == {"explore", "look", "search", "examine"}
TravelWords  == {"north", "south", "east", "west", "go", "move", "travel"}

new_locations ==
    <<"Forest Path", "Mountain Trail", "Village Square", "Ancient Ruins", "Mystic Cave">>

\* A list that keeps the current location.
TravelChoices_all(gs) == {new_locations[i] : i \in 1..Len(new_locations)}

\* The list random.choice draws from: new_locations without the current location.
TravelChoices(gs) ==
    {new_locations[i] : i \in {j \in 1..Len(new_locations) :
                                  new_locations[j] # gs.current_location}}

AnyWordIn(words, action) == \E w \in words : StrContains(action, w)

FallbackDict(narrative, location, hp_change, items_removed) ==
    Obj([narrative     |-> Str(narrative),
         location      |-> Str(location),
         hp_change     |-> Num(hp_change),
         items_added   |-> Arr(<<>>),
         items_removed |-> Arr(items_removed)])

\* action = user_input.lower().strip()
ActionOf(input) == strip(lower(input))

\* A chain that tests the heal group before the attack group.
BranchOf_heal_first(action) ==
    IF AnyWordIn(HealWords, action) THEN "heal"
    ELSE IF AnyWordIn(AttackWords, action) THEN "attack"
    ELSE IF AnyWordIn(ExploreWords, action) THEN "explore"
    ELSE IF AnyWordIn(TravelWords, action) THEN "travel"
    ELSE "default"

\* The branch of the if/elif chain that the action takes: the first group of
\* keywords one of which is a substring of the action.
BranchOf(action) ==
    IF AnyWordIn(AttackWords, action) THEN "attack"
    ELSE IF AnyWordIn(HealWords, action) THEN "heal"
    ELSE IF AnyWordIn(ExploreWords, action) THEN "explore"
    ELSE IF AnyWordIn(TravelWords, action) THEN "travel"
    ELSE "default"

\* ActionOf and BranchOf of the texts that reach get_ai_response in the model,
\* the player's and create_new_game's, computed once.
action_of == [input \in InputTexts \cup InitialPrompts |-> ActionOf(input)]
branch_of == [input \in InputTexts \cup InitialPrompts |-> BranchOf(action_of[input])]

\* What random.choice can return in this call: it is called in the travel branch only.
RandomChoices(gs, input) ==
    IF branch_of[input] = "travel" THEN TravelChoices(gs) ELSE {"(no choice)"}

\* A resolver that heals without looking for the potion.
get_fallback_response_no_potion_test(gs, input, new_location) ==
    CASE branch_of[input] = "attack" ->
        FallbackDict(gs.player.name
                        \o " swings their weapon! You deal damage to your opponent.",
                     gs.current_location, -5, <<>>)
      [] branch_of[input] = "heal" ->
        FallbackDict(gs.player.name
                        \o " drinks a health potion and feels much better!",
                     gs.current_location, 20, <<"Health Potion">>)
      [] branch_of[input] = "explore" ->
        FallbackDict("You explore the " \o gs.current_location
                        \o " carefully. The area seems peaceful for now, but you sense adventure awaits.",
                     gs.current_location, 0, <<>>)
      [] branch_of[input] = "travel" ->
        FallbackDict("You travel onward and arrive at the " \o new_location
                        \o ". The journey was uneventful but you feel ready for whatever comes next.",
                     new_location, 0, <<>>)
      [] OTHER ->
        FallbackDict("You attempt to " \o action_of[input]
                        \o ". The world around you responds in mysterious ways, and your adventure continues.",
                     gs.current_location, 0, <<>>)

\* new_location is the outcome of random.choice, one of RandomChoices(gs, input).
get_fallback_response(gs, input, new_location) ==
    CASE branch_of[input] = "attack" ->
        FallbackDict(gs.player.name
                        \o " swings their weapon! You deal damage to your opponent.",
                     gs.current_location, -5, <<>>)
      [] branch_of[input] = "heal" ->
        IF InList("Health Potion", gs.player.inventory) THEN
            FallbackDict(gs.player.name
                            \o " drinks a health potion and feels much better!",
                         gs.current_location, 20, <<"Health Potion">>)
        ELSE
            FallbackDict("You search your belongings but find no healing items.",
                         gs.current_location, 0, <<>>)
      [] branch_of[input] = "explore" ->
        FallbackDict("You explore the " \o gs.current_location
                        \o " carefully. The area seems peaceful for now, but you sense adventure awaits.",
                     gs.current_location, 0, <<>>)
      [] branch_of[input] = "travel" ->
        FallbackDict("You travel onward and arrive at the " \o new_location
                        \o ". The journey was uneventful but you feel ready for whatever comes next.",
                     new_location, 0, <<>>)
      [] OTHER ->
        FallbackDict("You attempt to " \o action_of[input]
                        \o ". The world around you responds in mysterious ways, and your adventure continues.",
                     gs.current_location, 0, <<>>)

\* Python's "key not in parsed_response" raises TypeError on a number or None.
KeyTestRaises(parsed) == parsed.t \in {"null", "num"}

\* Python's "key in parsed_response": a key of a dict, an element of a list, a
\* substring of a str.
KeyIn(key, parsed) ==
    CASE parsed.t = "obj" -> key \in DOMAIN parsed.v
      [] parsed.t = "arr" -> InList(key, parsed.v)
      [] parsed.t = "str" -> StrContains(parsed.v, key)

\* The loop over required_keys: the first missing key is assigned; the assignment
\* raises TypeError on a list and on a str.
FillRaises(parsed) ==
    \/ KeyTestRaises(parsed)
    \/ /\ parsed.t \in {"arr", "str"}
       /\ \E i \in 1..Len(required_keys) : ~KeyIn(required_keys[i], parsed)

\* A fill that leaves a missing location missing.
FillDefaults_no_location(parsed) ==
    IF parsed.t = "obj"
    THEN Obj([k \in DOMAIN parsed.v \cup (RequiredKeySet \ {"location"}) |->
                 IF k \in DOMAIN parsed.v THEN parsed.v[k] ELSE get_default_value(k)])
    ELSE parsed

\* The loop over required_keys on a dict: every missing key gets its default.
FillDefaults(parsed) ==
    IF parsed.t = "obj"
    THEN Obj([k \in DOMAIN parsed.v \cup RequiredKeySet |->
                 IF k \in DOMAIN parsed.v THEN parsed.v[k] ELSE get_default_value(k)])
    ELSE parsed

\* A get_ai_response that tries the backend again in Fallback mode.
get_ai_response_retry(mode, gs, input, reply, new_location) ==
    IF reply.t \in {"raise", "text"} \/ FillRaises(reply) THEN
        [fallback_mode |-> TRUE,
         response      |-> get_fallback_response(gs, input, new_location)]
    ELSE
        [fallback_mode |-> FALSE,
         response      |-> FillDefaults(reply)]

\* A get_ai_response that answers a failure with the defaults alone.
get_ai_response_lost(mode, gs, input, reply, new_location) ==
    IF mode THEN
        [fallback_mode |-> TRUE,
         response      |-> get_fallback_response(gs, input, new_location)]
    ELSE IF reply.t \in {"raise", "text"} \/ FillRaises(reply) THEN
        [fallback_mode |-> TRUE,
         response      |-> FillDefaults(Obj(<<>>))]
    ELSE
        [fallback_mode |-> FALSE,
         response      |-> FillDefaults(reply)]

\* The result of get_ai_response: the new fallback_mode and the value returned.
get_ai_response(mode, gs, input, reply, new_location) ==
    IF mode THEN
        [fallback_mode |-> TRUE,
         response      |-> get_fallback_response(gs, input, new_location)]
    ELSE IF reply.t = "raise" THEN
        [fallback_mode |-> TRUE,
         response      |-> get_fallback_response(gs, input, new_location)]
    ELSE IF reply.t = "text" THEN
        [fallback_mode |-> TRUE,
         response      |-> get_fallback_response(gs, input, new_location)]
    ELSE IF FillRaises(reply) THEN
        [fallback_mode |-> TRUE,
         response      |-> get_fallback_response(gs, input, new_location)]
    ELSE
        [fallback_mode |-> FALSE,
         response      |-> FillDefaults(reply)]

----------------------------------------------------------------------------
\* GameState

\* list.remove(item): the first occurrence is removed.
RECURSIVE ListRemove(_, _)
ListRemove(list, item) ==
    IF list = <<>> THEN <<>>
    ELSE IF Head(list) = item THEN Tail(list)
    ELSE <<Head(list)>> \o ListRemove(Tail(list), item)

\* An append without the membership test.
RECURSIVE AddItems_always(_, _)
AddItems_always(inventory, items) ==
    IF items = <<>> THEN inventory
    ELSE AddItems_always(IF Head(items) # "" THEN Append(inventory, Head(items))
                         ELSE inventory,
                         Tail(items))

\* for item in items_added: if item and item not in inventory: inventory.append(item)
RECURSIVE AddItems(_, _)
AddItems(inventory, items) ==
    IF items = <<>> THEN inventory
    ELSE AddItems(IF Head(items) # "" /\ ~InList(Head(items), inventory)
                  THEN Append(inventory, Head(items))
                  ELSE inventory,
                  Tail(items))

\* for item in items_removed: if item in inventory: inventory.remove(item)
RECURSIVE RemoveItems(_, _)
RemoveItems(inventory, items) ==
    IF items = <<>> THEN inventory
    ELSE RemoveItems(IF InList(Head(items), inventory)
                     THEN ListRemove(inventory, Head(items))
                     ELSE inventory,
                     Tail(items))

\* A history that records the narrative only.
add_to_history_dm_only(story_history, user_action, ai_narrative) ==
    story_history \o <<"DM: " \o ai_narrative>>

add_to_history(story_history, user_action, ai_narrative) ==
    story_history \o <<"Player: " \o user_action, "DM: " \o ai_narrative>>

\* A pruning that keeps the oldest entries: story_history[:max_turns * 2].
prune_history_oldest(story_history, max_turns) ==
    IF Len(story_history) > max_turns * 2
    THEN SubSeq(story_history, 1, max_turns * 2)
    ELSE story_history

\* story_history[-(max_turns * 2):] when the history is longer than max_turns * 2.
prune_history(story_history, max_turns) ==
    IF Len(story_history) > max_turns * 2
    THEN IF max_turns * 2 = 0
         THEN story_history
         ELSE SubSeq(story_history,
                     Len(story_history) - max_turns * 2 + 1, Len(story_history))
    ELSE story_history

----------------------------------------------------------------------------
\* DungeonsAndDaemons.update_game_state, statement by statement. A statement that
\* raises leaves the statements before it applied: the result is the game state
\* reached and whether an exception left the method.

\* ai_response.get raises AttributeError unless ai_response is a dict.
GetRaises(response) == response.t # "obj"

HpChange(response) == Get(response, "hp_change", Num(0))

\* ai_response.get("hp_change", 0) != 0
HpChanges(response) == HpChange(response).t # "num" \/ HpChange(response).v # 0

\* hp += ai_response["hp_change"] raises TypeError unless the value is a number.
HpRaises(response) == HpChanges(response) /\ HpChange(response).t # "num"

\* A clamp from below only: max(0, hp).
Clamp_no_upper(hp, max_hp) == IF hp > 0 THEN hp ELSE 0

Clamp(hp, max_hp) ==
    LET low == IF hp < max_hp THEN hp ELSE max_hp
    IN  IF low > 0 THEN low ELSE 0

UpdateHp(gs, response) ==
    IF HpChanges(response)
    THEN [gs EXCEPT !.player.hp =
             Clamp(gs.player.hp + HpChange(response).v, gs.player.max_hp)]
    ELSE gs

\* A location update without the truth test.
UpdateLocation_always(gs, response) ==
    IF "location" \in DOMAIN response.v /\ response.v["location"].t = "str"
    THEN [gs EXCEPT !.current_location = response.v["location"].v]
    ELSE gs

UpdateLocation(gs, response) ==
    IF Truthy(Get(response, "location", Null))
    THEN [gs EXCEPT !.current_location = response.v["location"].v]
    ELSE gs

ItemsAdded(response)   == Get(response, "items_added", Arr(<<>>))
ItemsRemoved(response) == Get(response, "items_removed", Arr(<<>>))

\* "for item in x" raises TypeError when x is None or a number.
IterRaises(x) == x.t \in {"null", "num"}

UpdateAdded(gs, response) ==
    [gs EXCEPT !.player.inventory = AddItems(gs.player.inventory, ItemsAdded(response).v)]

UpdateRemoved(gs, response) ==
    [gs EXCEPT !.player.inventory = RemoveItems(gs.player.inventory, ItemsRemoved(response).v)]

UpdateHistory(gs, response, user_action, max_turns) ==
    [gs EXCEPT !.story_history =
        prune_history(
            add_to_history(gs.story_history, user_action,
                           Get(response, "narrative", Str("Nothing happens...")).v),
            max_turns)]

\* An update that runs the removal loop before the addition loop.
update_game_state_remove_first(gs, response, user_action, max_turns) ==
    IF GetRaises(response) \/ HpRaises(response) THEN
        [raised |-> TRUE, game_state |-> gs]
    ELSE LET gs2 == UpdateLocation(UpdateHp(gs, response), response) IN
    IF IterRaises(ItemsRemoved(response)) THEN
        [raised |-> TRUE, game_state |-> gs2]
    ELSE LET gs3 == UpdateRemoved(gs2, response) IN
    IF IterRaises(ItemsAdded(response)) THEN
        [raised |-> TRUE, game_state |-> gs3]
    ELSE
        [raised |-> FALSE,
         game_state |-> UpdateHistory(UpdateAdded(gs3, response), response,
                                      user_action, max_turns)]

update_game_state(gs, response, user_action, max_turns) ==
    IF GetRaises(response) \/ HpRaises(response) THEN
        [raised |-> TRUE, game_state |-> gs]
    ELSE LET gs2 == UpdateLocation(UpdateHp(gs, response), response) IN
    IF IterRaises(ItemsAdded(response)) THEN
        [raised |-> TRUE, game_state |-> gs2]
    ELSE LET gs3 == UpdateAdded(gs2, response) IN
    IF IterRaises(ItemsRemoved(response)) THEN
        [raised |-> TRUE, game_state |-> gs3]
    ELSE
        [raised |-> FALSE,
         game_state |-> UpdateHistory(UpdateRemoved(gs3, response), response,
                                      user_action, max_turns)]

----------------------------------------------------------------------------
\* The inputs of the model.

\* A key the reply does not have.
Absent == [t |-> "absent", v |-> "absent"]

\* The object with the keys of choice whose value is not Absent.
ObjectOf(choice) ==
    Obj([k \in {key \in DOMAIN choice : choice[key] # Absent} |-> choice[k]])

\* The replies of a session: the failures, a JSON value that is no object, and
\* objects that have one key or all five.
SessionObjects ==
    {ObjectOf(c) : c \in [narrative     : {Absent, Str("A tale")},
                          location      : {Absent, Str("Dark Cave")},
                          hp_change     : {Absent, Num(-999), Num(50)},
                          items_added   : {Absent, Arr(<<"Rope", "Rope">>)},
                          items_removed : {Absent, Arr(<<"Gem", "Rope">>)}]}

SessionReplies ==
    {ChainRaises, NotJson, Arr(required_keys)} \cup
    {r \in SessionObjects : Cardinality(DOMAIN r.v) \in {1, Len(required_keys)}}

\* The replies of a single call: every shape json.loads can return, the objects
\* with every subset of the keys.
CallObjects ==
    {ObjectOf(c) : c \in [narrative     : {Absent, Str("A tale")},
                          location      : {Absent, Str(""), Str("Dark Cave"), Null},
                          hp_change     : {Absent, Num(-999), Num(50), Null},
                          items_added   : {Absent, Arr(<<"Rope", "Rope">>),
                                           Arr(<<"Backpack", "", "Gem">>), Null},
                          items_removed : {Absent, Arr(<<"Rope">>),
                                           Arr(<<"Gem", "Backpack", "Map">>), Null},
                          mood          : {Absent, Str("grim")}]}

AllKeyNames == "narrative location hp_change items_added items_removed"

CallReplies ==
    {ChainRaises, NotJson, Null, Num(7),
     Str("A tale"), Str("the narrative"), Str(AllKeyNames),
     Arr(<<>>), Arr(<<"narrative">>), Arr(required_keys)} \cup CallObjects

\* A saved history of k turns.

RECURSIVE SavedHistory(_)
SavedHistory(k) ==
    IF k = 0 THEN <<>>
    ELSE add_to_history(SavedHistory(k - 1),
                        "wait " \o SubSeq(Digits, k + 1, k + 1),
                        "Time passes " \o SubSeq(Digits, k + 1, k + 1))

\* A character sheet: a Human Rogue of level 1.
Aria ==
    [name             |-> "Aria",
     race             |-> "Human",
     character_class  |-> "Rogue",
     level            |-> 1,
     background       |-> "Criminal",
     alignment        |-> "Neutral Good",
     strength         |-> 9,
     dexterity        |-> 16,
     constitution     |-> 14,
     intelligence     |-> 13,
     wisdom           |-> 11,
     charisma         |-> 7,
     hp               |-> 20,
     max_hp           |-> 20,
     armor_class      |-> 14,
     proficiency_bonus |-> 2,
     skill_proficiencies        |-> <<"Acrobatics", "Athletics", "Deception", "Stealth">>,
     saving_throw_proficiencies |-> <<"Dexterity", "Intelligence">>,
     inventory        |-> default_inventory,
     equipment        |-> [armor |-> "Leather Armor", weapon |-> "Dagger",
                           shield |-> "None", tools |-> <<>>],
     experience_points |-> 0,
     gold_pieces      |-> 100]

\* The game states of a session under way.
GameStates(hps, inventories, locations, lengths, limit) ==
    {[player |-> [Aria EXCEPT !.hp = hp, !.inventory = inv],
      story_history     |-> SavedHistory(k),
      current_location  |-> loc,
      max_history_turns |-> limit] :
        hp \in hps, inv \in inventories, loc \in locations, k \in lengths}

NoCall == [t |-> "none", v |-> "None"]

\* No dice were rolled yet.
NoDice == [op |-> "none"]

\* auto_save is at its default, on.
InitWith(hps, inventories, locations, lengths) ==
    /\ setup_failed \in BOOLEAN
    /\ fallback_mode = setup_failed
    /\ settings \in [max_history_turns : 1..MaxHistoryTurns, auto_save : {TRUE}]
    /\ game_state \in GameStates(hps, inventories, locations, lengths,
                                settings.max_history_turns)
    /\ pc = "playing"
    /\ turns = 0
    /\ user_input = ""
    /\ backend_reply = NoCall
    /\ was_fallback = fallback_mode
    /\ ai_response = NoCall
    /\ prev_state = game_state
    /\ raised = FALSE
    /\ dice = NoDice
    /\ saved = save_to_json(game_state)
    /\ loaded = NoCall

----------------------------------------------------------------------------
\* run_game_loop

\* A test that lets a character at 0 hp play on.
check_game_over_negative(gs) == gs.player.hp < 0

check_game_over(gs) == gs.player.hp <= 0

\* One iteration of the loop that gets an input: get_ai_response, then
\* update_game_state, then the auto-save where the setting is on; an exception
\* is caught and the loop goes on.
TurnWith(inputs, replies) ==
    /\ pc = "playing"
    /\ ~check_game_over(game_state)
    /\ \E input \in inputs, reply \in replies :
       \E new_location \in RandomChoices(game_state, input) :
          LET r == get_ai_response(fallback_mode, game_state, input, reply, new_location)
              u == update_game_state(game_state, r.response, input,
                                     settings.max_history_turns)
          IN  /\ fallback_mode' = r.fallback_mode
              /\ game_state' = u.game_state
              /\ raised' = u.raised
              /\ ai_response' = r.response
              /\ user_input' = input
              /\ backend_reply' = reply
              /\ was_fallback' = fallback_mode
              /\ prev_state' = game_state
              /\ saved' = IF settings.auto_save /\ ~u.raised
                          THEN save_to_json(u.game_state) ELSE saved
    /\ turns' = turns + 1
    /\ UNCHANGED <<setup_failed, settings, pc, dice, loaded>>

\* The loop's first statement after the display: hp <= 0 ends the session.
GameOver ==
    /\ pc = "playing"
    /\ check_game_over(game_state)
    /\ pc' = "over"
    /\ UNCHANGED <<setup_failed, fallback_mode, game_state, settings, turns, user_input,
                   backend_reply, was_fallback, ai_response, prev_state, raised, dice,
                   saved, loaded>>

\* get_user_input returns None on quit, exit, q or menu (and on Ctrl-C): the
\* loop ends and the main menu is back.
Quit ==
    /\ pc = "playing"
    /\ ~check_game_over(game_state)
    /\ pc' = "menu"
    /\ UNCHANGED <<setup_failed, fallback_mode, game_state, settings, turns, user_input,
                   backend_reply, was_fallback, ai_response, prev_state, raised, dice,
                   saved, loaded>>

\* A session of up to MaxTurns turns.
Init ==
    InitWith({10}, {<<"Backpack", "Health Potion">>}, {"Village Square"},
             {0, MaxHistoryTurns})

Turn == turns < MaxTurns /\ TurnWith(UserInputs, SessionReplies)

Next == Turn \/ GameOver \/ Quit

Spec == Init /\ [][Next]_vars

\* One call of get_ai_response and update_game_state from every starting state.
InitCall ==
    InitWith({10},
             {<<>>, <<"Backpack", "Rope", "Gem">>, <<"Health Potion", "Gem">>},
             {"Village Square", "Dark Cave"},
             {0, MaxHistoryTurns})

TurnCall == turns = 0 /\ TurnWith(UserInputs, CallReplies)

NextCall == TurnCall \/ GameOver

SpecCall == InitCall /\ [][NextCall]_vars

\* One turn that the Fallback Resolver answers, whatever the mode at its start:
\* the backend, where there is one, fails. The game is at one of the resolver's
\* five locations or somewhere else.
ResolveLocations == {new_locations[i] : i \in 1..Len(new_locations)} \cup {"Dark Cave"}

InitResolve ==
    InitWith({5, 10},
             {<<>>, <<"Backpack", "Rope", "Gem">>, <<"Health Potion", "Gem">>},
             ResolveLocations,
             {0, MaxHistoryTurns})

TurnResolve == turns = 0 /\ TurnWith(InputTexts, {ChainRaises, NotJson})

NextResolve == TurnResolve \/ GameOver

SpecResolve == InitResolve /\ [][NextResolve]_vars

\* update_game_state alone, on every response dict, from every starting state.
ApplyWith(actions, responses) ==
    /\ pc = "playing"
    /\ turns = 0
    /\ \E user_action \in actions, response \in responses :
          LET u == update_game_state(game_state, response, user_action,
                                     settings.max_history_turns)
          IN  /\ game_state' = u.game_state
              /\ raised' = u.raised
              /\ ai_response' = response
              /\ user_input' = user_action
              /\ prev_state' = game_state
    /\ turns' = turns + 1
    /\ UNCHANGED <<setup_failed, fallback_mode, settings, pc, backend_reply, was_fallback,
                   dice, saved, loaded>>

InitApply ==
    InitWith({10},
             {<<>>, <<"Backpack", "Rope", "Gem">>, <<"Health Potion", "Gem">>},
             {"Village Square", "Dark Cave"},
             0..(MaxHistoryTurns + 1))

Apply == ApplyWith({"heal", "Begin adventure as Aria"}, CallObjects)

NextApply == Apply \/ GameOver

SpecApply == InitApply /\ [][NextApply]_vars

----------------------------------------------------------------------------
\* The dice engine, one call from a fresh roller.

\* The counts of dice are -1..MaxCount.
MaxCount == 2

Counts    == -1..MaxCount
Sides     == {-1, 0, 1, 6, 20}
Modifiers == {-2, 0, 3}

\* Texts for parse_dice_notation: notations, notations with something behind
\* them, and texts that are no notation.
Notations ==
    {"2d6+3", "d20", "1d6-2", "3D6 + 2", "d8", "0d6", "10d12-10",
     "2d6+3abc", "2d6+", "2d6-+3", "1d20 fire", "d20d20",
     "2d", "x2d6", "d", "", "abc", "12", "+2d6"}

\* parse_dice_notation of the texts of the model, computed once.
parse_of == [notation \in Notations |-> parse_dice_notation(notation)]

Methods == {"4d6_drop_lowest", "3d6", "array", "point_buy", "standard_array"}

\* Dice for one ability, and the dice for the six abilities.
SampleRolls == {<<6, 6, 6, 6>>, <<3, 5, 1, 4>>}
StatRolls   == [StatNameSet -> SampleRolls]

RollDice ==
    /\ dice.op = "none"
    /\ \E count \in Counts, sides \in Sides, modifier \in Modifiers :
       \E rolls \in RandintLists(count, sides) :
          dice' = [op |-> "roll_dice", count |-> count, sides |-> sides,
                   modifier |-> modifier,
                   out |-> roll_dice(count, sides, modifier, rolls)]
    /\ UNCHANGED <<setup_failed, fallback_mode, game_state, settings, pc, turns, user_input,
                   backend_reply, was_fallback, ai_response, prev_state, raised,
                   saved, loaded>>

ParseNotation ==
    /\ dice.op = "none"
    /\ \E notation \in Notations :
          dice' = [op |-> "parse_dice_notation", notation |-> notation,
                   out |-> parse_of[notation]]
    /\ UNCHANGED <<setup_failed, fallback_mode, game_state, settings, pc, turns, user_input,
                   backend_reply, was_fallback, ai_response, prev_state, raised,
                   saved, loaded>>

RollStats ==
    /\ dice.op = "none"
    /\ \E method \in Methods, rolls \in StatRolls :
          dice' = [op |-> "roll_stats", method |-> method, rolls |-> rolls,
                   out |-> Returns(roll_stats(method, rolls))]
    /\ UNCHANGED <<setup_failed, fallback_mode, game_state, settings, pc, turns, user_input,
                   backend_reply, was_fallback, ai_response, prev_state, raised,
                   saved, loaded>>

RollAbilityScores ==
    /\ dice.op = "none"
    /\ \E method \in Methods, rolls \in StatRolls :
          dice' = [op |-> "roll_ability_scores", method |-> method, rolls |-> rolls,
                   out |-> Returns(roll_ability_scores(method, rolls))]
    /\ UNCHANGED <<setup_failed, fallback_mode, game_state, settings, pc, turns, user_input,
                   backend_reply, was_fallback, ai_response, prev_state, raised,
                   saved, loaded>>

\* The greatest ability score that is asked for.
MaxScore == 20
Scores   == -3..MaxScore

GetModifier ==
    /\ dice.op = "none"
    /\ \E ability_score \in Scores :
          dice' = [op |-> "get_modifier", ability_score |-> ability_score,
                   out |-> Returns(get_modifier(ability_score))]
    /\ UNCHANGED <<setup_failed, fallback_mode, game_state, settings, pc, turns, user_input,
                   backend_reply, was_fallback, ai_response, prev_state, raised,
                   saved, loaded>>

\* The skill names that are asked for: the eighteen of the table, one in
\* another case and one that no table has.
SkillNames == DOMAIN skill_to_ability \cup {"Sleight Of Hand", "Juggling"}

\* Character.get_skill_modifier of the character of the game.
GetSkillModifier ==
    /\ dice.op = "none"
    /\ \E skill \in SkillNames :
          dice' = [op |-> "get_skill_modifier", skill |-> skill,
                   out |-> Returns(get_skill_modifier(game_state.player, skill))]
    /\ UNCHANGED <<setup_failed, fallback_mode, game_state, settings, pc, turns, user_input,
                   backend_reply, was_fallback, ai_response, prev_state, raised,
                   saved, loaded>>

InitDice == InitWith({10}, {<<>>}, {"Village Square"}, {0})

NextDice ==
    \/ RollDice \/ ParseNotation \/ RollStats \/ RollAbilityScores
    \/ GetModifier \/ GetSkillModifier

SpecDice == InitDice /\ [][NextDice]_vars

----------------------------------------------------------------------------
\* What the claims speak of.

\* The responses _get_fallback_response can return for a state and an input, one
\* for each outcome of random.choice.
FallbackResponses(gs, input) ==
    {get_fallback_response(gs, input, c) : c \in RandomChoices(gs, input)}

\* The last turn ran get_ai_response (turns counts them).
Called == turns > 0

HasAllKeys(x) == x.t = "obj" /\ RequiredKeySet \subseteq DOMAIN x.v

StartsWith(text, prefix) ==
    Len(text) >= Len(prefix) /\ SubSeq(text, 1, Len(prefix)) = prefix

NoDuplicates(list) ==
    \A i, j \in 1..Len(list) : list[i] = list[j] => i = j

\* The elements of list that are in other, in the order of list.
Keep(list, other) ==
    LET Test(x) == InList(x, other) IN SelectSeq(list, Test)

\* The last call's response is a dict whose hp_change, items_added and
\* items_removed have the types of the Narrative Response Contract.
WellTyped ==
    /\ ai_response.t = "obj"
    /\ Get(ai_response, "hp_change", Num(0)).t = "num"
    /\ Get(ai_response, "items_added", Arr(<<>>)).t = "arr"
    /\ Get(ai_response, "items_removed", Arr(<<>>)).t = "arr"

HpDelta  == Get(ai_response, "hp_change", Num(0)).v
Added    == Get(ai_response, "items_added", Arr(<<>>)).v
Removed  == Get(ai_response, "items_removed", Arr(<<>>)).v
Location == Get(ai_response, "location", Absent)

----------------------------------------------------------------------------
\* C1: the mode is one-way. Once fallback_mode is true it is true in every
\* later state, and every get_ai_response call made while it is true returns a
\* response of the Fallback Resolver for the state and the input of that call,
\* whatever the backend would answer.
C1_FallbackIsOneWay ==
    [][fallback_mode =>
          /\ fallback_mode'
          /\ turns' # turns =>
                ai_response' \in FallbackResponses(game_state, user_input')]_vars

\* C1: the backend was there at setup, failed in the first turn, and in the
\* second turn would have answered with all five keys; the Fallback Resolver
\* answered instead.
C1_Witness ==
    /\ ~setup_failed
    /\ turns = 2
    /\ was_fallback
    /\ HasAllKeys(backend_reply)
    /\ fallback_mode
    /\ ai_response \in FallbackResponses(prev_state, user_input)
    /\ ai_response # backend_reply

\* C2: a call in Connected mode whose backend raises or replies with text that
\* is not JSON switches to Fallback and returns a response of the Fallback
\* Resolver for the same game state and input, and the turn is applied: the
\* history ends with this turn's pair.
C2_TurnNotLost ==
    (Called /\ ~was_fallback /\ backend_reply.t \in {"raise", "text"}) =>
        /\ fallback_mode
        /\ ai_response \in FallbackResponses(prev_state, user_input)
        /\ ~raised
        /\ LET h == game_state.story_history IN
           /\ Len(h) >= 2
           /\ h[Len(h) - 1] = "Player: " \o user_input
           /\ h[Len(h)] = "DM: " \o ai_response.v["narrative"].v

\* C2: the backend raised in Connected mode on "I attack the goblin"; the attack
\* was resolved by the Fallback Resolver in the same call and cost 5 hp.
C2_Witness ==
    /\ Called
    /\ ~was_fallback
    /\ backend_reply = ChainRaises
    /\ user_input = "I attack the goblin"
    /\ fallback_mode
    /\ HasAllKeys(ai_response)
    /\ ai_response.v["hp_change"] = Num(-5)
    /\ game_state.player.hp = prev_state.player.hp - 5

\* C3: whatever the backend does, and in both modes, get_ai_response returns a
\* mapping that has the five keys.
C3_ResponseHasFiveKeys == Called => HasAllKeys(ai_response)

\* The defaults that the specification names for the five keys.
C4_Defaults ==
    [narrative     |-> Str("The adventure continues..."),
     location      |-> Str("Unknown"),
     hp_change     |-> Num(0),
     items_added   |-> Arr(<<>>),
     items_removed |-> Arr(<<>>)]

\* C4: in Connected mode a reply that is a JSON object gets exactly its missing
\* keys filled with the defaults, keeps its own keys with their values, and the
\* mode stays Connected.
C4_MissingKeysFilled ==
    (Called /\ ~was_fallback /\ backend_reply.t = "obj") =>
        /\ ~fallback_mode
        /\ ai_response.t = "obj"
        /\ DOMAIN ai_response.v = DOMAIN backend_reply.v \cup RequiredKeySet
        /\ \A k \in DOMAIN backend_reply.v : ai_response.v[k] = backend_reply.v[k]
        /\ \A k \in RequiredKeySet \ DOMAIN backend_reply.v :
              ai_response.v[k] = C4_Defaults[k]

\* C4: a reply with hp_change and one more key, and none of the other four.
C4_Witness ==
    /\ Called
    /\ ~was_fallback
    /\ backend_reply = Obj([hp_change |-> Num(50), mood |-> Str("grim")])
    /\ ~fallback_mode
    /\ ai_response.v["location"] = Str("Unknown")
    /\ ai_response.v["hp_change"] = Num(50)
    /\ ai_response.v["mood"] = Str("grim")

\* C5: a response with hp_change # 0 sets hp to max(0, min(hp + hp_change,
\* max_hp)), and 0 <= hp <= max_hp holds in every state of a session that starts
\* with it.
C5_HpClamped ==
    /\ 0 <= game_state.player.hp
    /\ game_state.player.hp <= game_state.player.max_hp
    /\ (Called /\ WellTyped /\ HpDelta # 0) =>
          LET sum == prev_state.player.hp + HpDelta
              top == prev_state.player.max_hp
          IN  game_state.player.hp =
                 IF sum > top THEN top ELSE IF sum < 0 THEN 0 ELSE sum

\* C5: hp 10 of 20 and hp_change +50 give hp 20.
C5_Witness ==
    /\ Called
    /\ WellTyped
    /\ HpDelta = 50
    /\ prev_state.player.hp = 10
    /\ prev_state.player.max_hp = 20
    /\ game_state.player.hp = 20

\* C6: update_game_state sets current_location to the response's location when
\* that is a non-empty string, and leaves current_location as it was when the
\* location is the empty string or the key is absent; it never clears it.
C6_LocationKeptWhenEmpty ==
    (Called /\ ai_response.t = "obj" /\ Get(ai_response, "hp_change", Num(0)).t = "num") =>
        /\ (Location.t = "str" /\ Location.v # "") =>
              game_state.current_location = Location.v
        /\ (Location = Absent \/ Location = Str("")) =>
              game_state.current_location = prev_state.current_location
        /\ game_state.current_location # ""

\* C6: a response without a location key changed the hp and left the location.
C6_Witness ==
    /\ Called
    /\ WellTyped
    /\ Location = Absent
    /\ HpDelta = 50
    /\ game_state.player.hp # prev_state.player.hp
    /\ prev_state.current_location = "Dark Cave"
    /\ game_state.current_location = "Dark Cave"

\* C7: an item of items_added is appended only if it is not in the inventory:
\* the inventory never holds an item twice, every new item comes from
\* items_added, an added item that is not removed is there once, and the items
\* that were there keep their order.
C7_InventoryDedup ==
    /\ NoDuplicates(game_state.player.inventory)
    /\ (Called /\ WellTyped) =>
          LET old == prev_state.player.inventory
              new == game_state.player.inventory
          IN  /\ \A i \in 1..Len(new) : InList(new[i], old) \/ InList(new[i], Added)
              /\ \A i \in 1..Len(Added) :
                    (Added[i] # "" /\ ~InList(Added[i], Removed)) =>
                        Cardinality({j \in 1..Len(new) : new[j] = Added[i]}) = 1
              /\ Keep(new, old) = Keep(old, new)

\* C7: "Rope" is in the inventory and the response adds "Rope" twice more; the
\* inventory is as it was.
C7_Witness ==
    /\ turns = 2
    /\ WellTyped
    /\ InList("Rope", prev_state.player.inventory)
    /\ Added = <<"Rope", "Rope">>
    /\ Removed = <<>>
    /\ game_state.player.inventory = prev_state.player.inventory

\* C8: every item of items_removed that is in the inventory is removed and the
\* absent ones are ignored without an error; the other items stay, in their
\* order; additions come first, so an item that is both added and removed is not
\* in the inventory afterwards.
C8_RemovalAfterAddition ==
    (Called /\ WellTyped) =>
        LET old == prev_state.player.inventory
            new == game_state.player.inventory
        IN  /\ ~raised
            /\ \A i \in 1..Len(Removed) : ~InList(Removed[i], new)
            /\ \A i \in 1..Len(old) : ~InList(old[i], Removed) => InList(old[i], new)
            /\ \A i \in 1..Len(new) : InList(new[i], old) \/ InList(new[i], Added)
            /\ Keep(new, old) = Keep(old, new)

\* C8: "Backpack" (new) and "Gem" (owned) are added and removed by one response,
\* "Map" is removed though nobody has it; only "Health Potion" is left.
C8_Witness ==
    /\ Called
    /\ WellTyped
    /\ prev_state.player.inventory = <<"Health Potion", "Gem">>
    /\ Added = <<"Backpack", "", "Gem">>
    /\ Removed = <<"Gem", "Backpack", "Map">>
    /\ ~raised
    /\ game_state.player.inventory = <<"Health Potion">>

\* C9: a completed turn appends "Player: {user_action}" and then
\* "DM: {narrative}"; a history that starts with an even length has an even
\* length after every turn, and its entries alternate Player, DM.
C9_HistoryPairs ==
    LET h == game_state.story_history IN
    /\ Len(h) % 2 = 0
    /\ \A i \in 1..Len(h) :
          IF i % 2 = 1 THEN StartsWith(h[i], "Player: ") ELSE StartsWith(h[i], "DM: ")
    /\ (Called /\ ~raised) =>
          /\ Len(h) >= 2
          /\ h[Len(h) - 1] = "Player: " \o user_input
          /\ h[Len(h)] = "DM: " \o ai_response.v["narrative"].v
          /\ \E d \in 0..Len(prev_state.story_history) :
                SubSeq(h, 1, Len(h) - 2)
                   = SubSeq(prev_state.story_history, d + 1, Len(prev_state.story_history))
    /\ (Called /\ raised) => h = prev_state.story_history

\* C9: the second turn of a session added its pair behind the pair of the first.
C9_Witness ==
    LET h == game_state.story_history IN
    /\ turns = 2
    /\ ~raised
    /\ Len(prev_state.story_history) = 2
    /\ Len(h) = 4
    /\ h[3] = "Player: " \o user_input
    /\ StartsWith(h[4], "DM: ")

\* C10: after a completed turn the history has at most 2 * max_history_turns
\* entries; when entries were dropped, those kept are the last
\* 2 * max_history_turns of the history with this turn's pair, in their order,
\* and the first of them is a "Player: " entry.
C10_HistoryPruned ==
    (Called /\ ~raised) =>
        LET h     == game_state.story_history
            limit == 2 * settings.max_history_turns
            full  == prev_state.story_history
                        \o <<"Player: " \o user_input,
                             "DM: " \o ai_response.v["narrative"].v>>
        IN  /\ Len(h) <= limit
            /\ Len(full) <= limit => h = full
            /\ Len(full) > limit =>
                  /\ Len(h) = limit
                  /\ \A i \in 1..limit : h[i] = full[Len(full) - limit + i]
                  /\ StartsWith(h[1], "Player: ")

\* C10: with max_history_turns = 2 and two pairs in the history, a turn dropped
\* the oldest pair.
C10_Witness ==
    /\ Called
    /\ ~raised
    /\ settings.max_history_turns = 2
    /\ Len(prev_state.story_history) = 4
    /\ Len(game_state.story_history) = 4
    /\ game_state.story_history[1] = prev_state.story_history[3]
    /\ game_state.story_history[3] = "Player: " \o user_input

----------------------------------------------------------------------------
\* The keyword groups as the specification lists them, and for each text of
\* the model the groups one of whose words the trimmed, lower-cased text contains.
KeywordGroups ==
    [attack  |-> {"attack", "fight", "hit", "strike"},
     heal    |-> {"heal", "potion", "drink", "use potion"},
     explore |-> {"explore", "look", "search", "examine"},
     travel  |-> {"north", "south", "east", "west", "go", "move", "travel"}]

GroupsOf ==
    [input \in InputTexts |->
        {g \in DOMAIN KeywordGroups :
            \E w \in KeywordGroups[g] : StrContains(strip(lower(input)), w)}]

\* The last turn was answered by the Fallback Resolver.
Resolved == Called /\ fallback_mode /\ ai_response.t = "obj"

NoItemChanges ==
    /\ ai_response.v["items_added"] = Arr(<<>>)
    /\ ai_response.v["items_removed"] = Arr(<<>>)

FiveLocations ==
    {"Forest Path", "Mountain Trail", "Village Square", "Ancient Ruins", "Mystic Cave"}

\* C11: the Fallback Resolver answers by the first keyword group that the
\* trimmed, lower-cased input matches, in the order attack, heal, explore,
\* travel, default. An attack match gives hp_change = -5 and no item changes
\* whatever else matches; an explore match (without attack or heal) and no match
\* at all give hp_change = 0, no item changes and the location unchanged; a
\* heal match without attack is answered as a heal, a travel match alone as a
\* travel.
C11_FirstMatchWins ==
    Resolved =>
        LET groups == GroupsOf[user_input] IN
        /\ "attack" \in groups =>
              /\ ai_response.v["hp_change"] = Num(-5)
              /\ NoItemChanges
        /\ (groups = {} \/ ("explore" \in groups /\ groups \cap {"attack", "heal"} = {})) =>
              /\ ai_response.v["hp_change"] = Num(0)
              /\ NoItemChanges
              /\ ai_response.v["location"] = Str(prev_state.current_location)
              /\ game_state.current_location = prev_state.current_location
        /\ ("heal" \in groups /\ "attack" \notin groups) =>
              /\ ai_response.v["hp_change"] \in {Num(0), Num(20)}
              /\ ai_response.v["location"] = Str(prev_state.current_location)
        /\ groups = {"travel"} =>
              ai_response.v["location"] # Str(prev_state.current_location)

\* C11: "Fight, then drink and go" has words of the attack, heal and travel
\* groups; with a potion in the inventory it cost 5 hp, kept the potion and the
\* location.
C11_Witness ==
    /\ Resolved
    /\ user_input = "Fight, then drink and go"
    /\ GroupsOf[user_input] = {"attack", "heal", "travel"}
    /\ InList("Health Potion", prev_state.player.inventory)
    /\ ai_response.v["hp_change"] = Num(-5)
    /\ game_state.player.hp = prev_state.player.hp - 5
    /\ game_state.player.inventory = prev_state.player.inventory
    /\ game_state.current_location = prev_state.current_location

\* C12: for an input of the heal group and not of the attack group, with
\* "Health Potion" in the inventory the response has hp_change = +20 and
\* items_removed = ["Health Potion"] and the potion is gone from the inventory
\* after the turn; without it the response has hp_change = 0 and the inventory
\* is unchanged after the turn.
C12_FallbackHeal ==
    (Resolved /\ "heal" \in GroupsOf[user_input] /\ "attack" \notin GroupsOf[user_input]) =>
        IF InList("Health Potion", prev_state.player.inventory) THEN
            /\ ai_response.v["hp_change"] = Num(20)
            /\ ai_response.v["items_removed"] = Arr(<<"Health Potion">>)
            /\ ~raised
            /\ ~InList("Health Potion", game_state.player.inventory)
        ELSE
            /\ ai_response.v["hp_change"] = Num(0)
            /\ ~raised
            /\ game_state.player.inventory = prev_state.player.inventory
            /\ game_state.player.hp = prev_state.player.hp

\* C12: "heal" without a potion among three items: nothing healed, the three
\* items are still there.
C12_Witness ==
    /\ Resolved
    /\ user_input = "heal"
    /\ prev_state.player.inventory = <<"Backpack", "Rope", "Gem">>
    /\ ai_response.v["hp_change"] = Num(0)
    /\ game_state.player.inventory = <<"Backpack", "Rope", "Gem">>
    /\ game_state.player.hp = prev_state.player.hp

\* C13: for an input of the travel group alone the response has hp_change = 0
\* and a location of the five-location set that is not the current location,
\* and after the turn current_location has changed, wherever the game was.
C13_TravelChangesLocation ==
    (Resolved /\ GroupsOf[user_input] = {"travel"}) =>
        /\ ai_response.v["hp_change"] = Num(0)
        /\ ai_response.v["location"].t = "str"
        /\ ai_response.v["location"].v \in FiveLocations
        /\ ai_response.v["location"].v # prev_state.current_location
        /\ ~raised
        /\ game_state.current_location = ai_response.v["location"].v
        /\ game_state.current_location # prev_state.current_location

\* C13: a travel from "Village Square", which is one of the five, to another.
C13_Witness ==
    /\ Resolved
    /\ user_input = "Go North"
    /\ prev_state.current_location = "Village Square"
    /\ game_state.current_location = "Mystic Cave"
    /\ game_state.player.hp = prev_state.player.hp

\* C14: game over is terminal. From a state with hp <= 0 the loop takes no
\* input and resolves no turn: the only step left ends the session and leaves
\* the game state as it is, and an ended session stays ended, its hp at 0.
C14_GameOverIsTerminal ==
    [][/\ pc = "over" => game_state.player.hp <= 0
       /\ (game_state.player.hp <= 0 \/ pc = "over") =>
             /\ pc' = "over"
             /\ turns' = turns
             /\ user_input' = user_input
             /\ game_state' = game_state]_vars

\* C14: a session whose second turn took the hp from above 0 to 0 has ended.
C14_Witness ==
    /\ pc = "over"
    /\ turns = 2
    /\ prev_state.player.hp > 0
    /\ game_state.player.hp = 0

\* C15: a turn is applied as a whole. For every response get_ai_response can
\* return, either update_game_state ran to its end (hp, location and inventory
\* are updated and the history ends with this turn's two entries) or it raised
\* and the game state is as it was before the turn.
C15_TurnAppliedAsWhole ==
    Called =>
        IF raised THEN game_state = prev_state
        ELSE LET h == game_state.story_history IN
             /\ Len(h) >= 2
             /\ h[Len(h) - 1] = "Player: " \o user_input
             /\ StartsWith(h[Len(h)], "DM: ")

----------------------------------------------------------------------------
\* The last call of the dice engine.
Rolled == dice.op = "roll_dice"
Parsed == dice.op = "parse_dice_notation"

\* C16: roll_dice raises and returns no result when count < 1 or sides < 1;
\* otherwise it returns exactly count die values, each in 1..sides, of die type
\* sides, with total = sum(rolls) + modifier.
C16_RollChecksArguments ==
    Rolled =>
        IF dice.count < 1 \/ dice.sides < 1 THEN
            /\ dice.out.raised
            /\ "value" \notin DOMAIN dice.out
        ELSE
            /\ ~dice.out.raised
            /\ LET r == dice.out.value IN
               /\ Len(r.rolls) = dice.count
               /\ r.roll_count = dice.count
               /\ r.dice_type = dice.sides
               /\ \A i \in 1..Len(r.rolls) : r.rolls[i] \in 1..dice.sides
               /\ r.total - dice.modifier
                     = Sum([i \in 1..Len(r.rolls) |-> r.rolls[i]])

\* C16: two six-sided dice showing 4 and 6 with modifier 3 total 13.
C16_Witness ==
    /\ Rolled
    /\ dice.count = 2 /\ dice.sides = 6 /\ dice.modifier = 3
    /\ ~dice.out.raised
    /\ dice.out.value.rolls = <<4, 6>>
    /\ dice.out.value.total = 13

\* The grammar of a notation, on the text without its spaces and in lower
\* case: [count] 'd' sides [(+|-) modifier], count, sides and modifier being
\* runs of digits. Splits(c) are the ways to read the whole of c so: count is
\* c[1..i], sides is c[i+2..j], the sign is c[j+1] and the modifier the rest.
AllDigits(s) == \A i \in 1..Len(s) : IsDigit(SubSeq(s, i, i))

Splits(c) ==
    {<<i, j>> \in (0..Len(c)) \X (1..Len(c)) :
        /\ i + 2 <= j
        /\ AllDigits(SubSeq(c, 1, i))
        /\ SubSeq(c, i + 1, i + 1) = "d"
        /\ AllDigits(SubSeq(c, i + 2, j))
        /\ \/ j = Len(c)
           \/ /\ j + 2 <= Len(c)
              /\ SubSeq(c, j + 1, j + 1) \in {"+", "-"}
              /\ AllDigits(SubSeq(c, j + 2, Len(c)))}

\* (count or 1, sides, signed modifier) of the split <<i, j>> of c.
ValueOfSplit(c, split) ==
    LET i == split[1]
        j == split[2]
    IN  <<IF i = 0 THEN 1 ELSE int(SubSeq(c, 1, i)),
          int(SubSeq(c, i + 2, j)),
          IF j = Len(c) THEN 0
          ELSE IF SubSeq(c, j + 1, j + 1) = "+" THEN int(SubSeq(c, j + 2, Len(c)))
          ELSE -int(SubSeq(c, j + 2, Len(c)))>>

\* For each text of the model: the values the grammar gives it (none when the
\* text as a whole is no notation).
GrammarValues ==
    [notation \in Notations |->
        LET c == lower(RemoveSpaces(notation))
        IN  {ValueOfSplit(c, split) : split \in Splits(c)}]

\* C17: parse_dice_notation accepts exactly the grammar: a text that matches
\* it as a whole gives (count or 1, sides, signed modifier), so "2d6+3" gives
\* (2, 6, 3), "d20" gives (1, 20, 0) and "1d6-2" gives (1, 6, -2); every other
\* text raises, and no part of it is parsed.
C17_ParsesWholeTextOnly ==
    Parsed =>
        /\ GrammarValues[dice.notation] # {} =>
              /\ ~dice.out.raised
              /\ dice.out.value \in GrammarValues[dice.notation]
        /\ GrammarValues[dice.notation] = {} => dice.out.raised
        /\ dice.notation = "2d6+3" => dice.out = Returns(<<2, 6, 3>>)
        /\ dice.notation = "d20"   => dice.out = Returns(<<1, 20, 0>>)
        /\ dice.notation = "1d6-2" => dice.out = Returns(<<1, 6, -2>>)

\* C18: is_critical_hit holds iff the die type is 20, there is exactly one die
\* and it shows 20; is_critical_fail holds iff the die type is 20, there is
\* exactly one die and it shows 1; never both; two or more dice, or dice of
\* another type, report neither, whatever they show.
C18_CriticalOnlySingleD20 ==
    (Rolled /\ ~dice.out.raised) =>
        LET r      == dice.out.value
            single == dice.sides = 20 /\ dice.count = 1
        IN  /\ is_critical_hit(r)  <=> (single /\ r.rolls = <<20>>)
            /\ is_critical_fail(r) <=> (single /\ r.rolls = <<1>>)
            /\ ~(is_critical_hit(r) /\ is_critical_fail(r))
            /\ (dice.count > 1 \/ dice.sides # 20) =>
                  ~is_critical_hit(r) /\ ~is_critical_fail(r)

\* C18: two d20 that both show 20: a maximal roll and no critical hit.
C18_Witness ==
    /\ Rolled
    /\ dice.count = 2 /\ dice.sides = 20
    /\ ~dice.out.raised
    /\ dice.out.value.rolls = <<20, 20>>
    /\ is_max_roll(dice.out.value)
    /\ ~is_critical_hit(dice.out.value)
    /\ ~is_critical_fail(dice.out.value)

\* The last call produced ability scores, on either path: DiceRoller.roll_stats
\* or the character creation's MenuSystem._roll_ability_scores.
Scored == dice.op \in {"roll_stats", "roll_ability_scores"}

StandardArray ==
    [Strength |-> 15, Dexterity |-> 14, Constitution |-> 13,
     Intelligence |-> 12, Wisdom |-> 10, Charisma |-> 8]

\* C19 as stated: the method "standard_array" returns Strength 15, Dexterity
\* 14, Constitution 13, Intelligence 12, Wisdom 10, Charisma 8.
C19_StandardArrayByName ==
    (Scored /\ dice.method = "standard_array") => dice.out.value = StandardArray

\* C19: the method "array" is deterministic and returns a mapping of exactly
\* the six abilities with Strength 15, Dexterity 14, Constitution 13,
\* Intelligence 12, Wisdom 10, Charisma 8, whatever the dice would show.
C19_ArrayIsFixed ==
    (Scored /\ dice.method = "array") =>
        /\ DOMAIN dice.out.value
              = {"Strength", "Dexterity", "Constitution", "Intelligence", "Wisdom", "Charisma"}
        /\ dice.out.value = StandardArray

\* C19: roll_stats("array") gave the array though every die would have shown 6.
C19_Witness ==
    /\ dice.op = "roll_stats"
    /\ dice.method = "array"
    /\ \A stat \in StatNameSet : dice.rolls[stat] = <<6, 6, 6, 6>>
    /\ dice.out.value["Strength"] = 15
    /\ dice.out.value["Charisma"] = 8

\* C20: every path that produces point-buy scores returns the same six
\* values: those of roll_stats("point_buy") and those of _point_buy_system.
C20_PointBuyOneAllocation ==
    (Scored /\ dice.method = "point_buy") =>
        /\ dice.out.value = roll_stats("point_buy", dice.rolls)
        /\ dice.out.value = point_buy_system

----------------------------------------------------------------------------
\* C21: for every integer score, the ability modifier that DiceRoller.get_modifier
\* returns is floor((score - 10) / 2), the greatest integer m with
\* 2 * m <= score - 10 (so -1 for 9, 0 for 10, 5 for 20), and
\* Character.get_ability_modifier and the inline computation of character
\* finalization give the same number.
C21_ModifierIsFloor ==
    dice.op = "get_modifier" =>
        LET s == dice.ability_score
            m == dice.out.value
        IN  /\ ~dice.out.raised
            /\ 2 * m <= s - 10
            /\ s - 10 < 2 * m + 2
            /\ get_ability_modifier(s) = m
            /\ inline_modifier(s) = m
            /\ (s = 9 => m = -1) /\ (s = 10 => m = 0) /\ (s = 20 => m = 5)

\* The modifier of 9 was asked for: an odd numerator below zero.
C21_Witness ==
    /\ dice.op = "get_modifier"
    /\ dice.ability_score = 9
    /\ dice.out.value = -1

----------------------------------------------------------------------------
\* Loading a saved game, and the level-ups of its character.

\* The highest level a character is raised to.
MaxLevel == 5

\* The dict with the keys of data that are in keys.
Restrict(data, keys) == [k \in DOMAIN data \cap keys |-> data[k]]

\* The keys of a saved character and of a save file.
PlayerKeys == DOMAIN to_dict(Aria)
FileKeys   == {"player", "story_history", "current_location", "max_history_turns"}

\* The characters of the save files: of the first level, the last level before
\* the proficiency bonus grows and the first after it, sturdy or frail, unhurt,
\* hurt or at the constructor's defaults of 100 hit points, and with or without
\* items.
SavedCharacters ==
    {[Aria EXCEPT !.level = level,
                  !.proficiency_bonus = IF level < 5 THEN 2 ELSE 3,
                  !.constitution = constitution,
                  !.hp = hps[1], !.max_hp = hps[2],
                  !.inventory = inventory] :
        level \in {1, MaxLevel - 1, MaxLevel}, constitution \in {1, 14},
        hps \in {<<20, 20>>, <<7, 20>>, <<100, 100>>},
        inventory \in {default_inventory, <<>>}}

\* The keys a saved character has: all of them, all but one of the three that
\* from_dict reads with data[key], those three alone, those three and the
\* level, or all but the ability scores.
PlayerKeySets ==
    {PlayerKeys, PlayerKeys \ {"name"}, PlayerKeys \ {"hp"}, PlayerKeys \ {"max_hp"},
     character_keys, character_keys \cup {"level"},
     PlayerKeys \ {"strength", "dexterity", "constitution", "intelligence",
                   "wisdom", "charisma"}}

\* The keys a save file has.
FileKeySets == {FileKeys, {"player"}, FileKeys \ {"player"}}

\* The save files: none, one that is no JSON, and JSON objects.
SaveFiles ==
    {NoFile, CorruptFile} \cup
    {JsonFile(Restrict([player            |-> Restrict(to_dict(c), player_keys),
                        story_history     |-> SavedHistory(1),
                        current_location  |-> "Dark Cave",
                        max_history_turns |-> 1],
                       file_keys)) :
        c \in SavedCharacters, player_keys \in PlayerKeySets, file_keys \in FileKeySets}

\* The main menu, before a game is loaded or created.
InitMenu(files) ==
    /\ setup_failed \in BOOLEAN
    /\ fallback_mode = setup_failed
    /\ settings \in [max_history_turns : 1..MaxHistoryTurns, auto_save : BOOLEAN]
    /\ game_state = None
    /\ pc = "menu"
    /\ turns = 0
    /\ user_input = ""
    /\ backend_reply = NoCall
    /\ was_fallback = fallback_mode
    /\ ai_response = NoCall
    /\ prev_state = None
    /\ raised = FALSE
    /\ dice = NoDice
    /\ saved \in files
    /\ loaded = NoCall

\* load_existing_game: the game that load_from_json returns becomes the game
\* of the session, with the history limit of the settings, and the loop
\* starts; without a game the main menu stays.
LoadExistingGame ==
    /\ pc = "menu"
    /\ loaded' = load_from_json(saved)
    /\ IF loaded'.value # None
       THEN /\ game_state' = [loaded'.value EXCEPT
                                 !.max_history_turns = settings.max_history_turns]
            /\ pc' = "playing"
       ELSE UNCHANGED <<game_state, pc>>
    /\ UNCHANGED <<setup_failed, fallback_mode, settings, turns, user_input,
                   backend_reply, was_fallback, ai_response, prev_state, raised, dice,
                   saved>>

\* Character.level_up on the character of the game.
LevelUp ==
    /\ pc = "playing"
    /\ game_state.player.level < MaxLevel
    /\ game_state' = [game_state EXCEPT !.player = level_up(game_state.player)]
    /\ prev_state' = game_state
    /\ UNCHANGED <<setup_failed, fallback_mode, settings, pc, turns, user_input,
                   backend_reply, was_fallback, ai_response, raised, dice,
                   saved, loaded>>

InitLoad == InitMenu(SaveFiles)

NextLoad == LoadExistingGame \/ LevelUp

SpecLoad == InitLoad /\ [][NextLoad]_vars

----------------------------------------------------------------------------
\* Claims about the character sheet and the save file.

\* floor((score - 10) / 2): the greatest m with 2 * m <= score - 10.
FloorModifier(score) ==
    CHOOSE m \in -20..20 : 2 * m <= score - 10 /\ score - 10 < 2 * m + 2

\* A game is under way.
HasGame == game_state # None

\* C23: the proficiency bonus is derived from the level: whenever a game is
\* under way, after a saved record was loaded and after any number of
\* level-ups, the character's proficiency_bonus is 2 + floor((level - 1) / 4).
C23_ProficiencyFromLevel ==
    HasGame =>
        game_state.player.proficiency_bonus
            = 2 + ((game_state.player.level - 1) \div 4)

\* The step is a level-up of the character of the game.
IsLevelUp == pc = "playing" /\ pc' = "playing" /\ game_state' # game_state

\* C24: a level-up raises the level by exactly 1 and raises max_hp and hp by
\* the same amount, max(1, 5 + constitution modifier), so that max_hp - hp is
\* the same as before and hp <= max_hp stays true; the ability scores, the
\* inventory, the location and the history are as before.
C24_LevelUp ==
    [][IsLevelUp =>
        LET c    == game_state.player
            d    == game_state'.player
            gain == Max(1, 5 + FloorModifier(c.constitution))
        IN  /\ d.level = c.level + 1
            /\ d.max_hp = c.max_hp + gain
            /\ d.hp = c.hp + gain
            /\ d.max_hp - d.hp = c.max_hp - c.hp
            /\ (c.hp <= c.max_hp => d.hp <= d.max_hp)
            /\ \A k \in {"strength", "dexterity", "constitution", "intelligence",
                         "wisdom", "charisma", "inventory"} : d[k] = c[k]
            /\ game_state'.current_location = game_state.current_location
            /\ game_state'.story_history = game_state.story_history]_vars

\* A frail, hurt character was raised by one level: 5 + the constitution
\* modifier is 0 and the gain is 1.
C24_Witness ==
    /\ HasGame
    /\ prev_state # None
    /\ game_state.player.level = prev_state.player.level + 1
    /\ game_state.player.constitution = 1
    /\ prev_state.player.hp = 7
    /\ game_state.player.hp = 8
    /\ game_state.player.max_hp = 21

\* The save file is a JSON object without the player or without the name, hp
\* or max_hp of the player.
LacksMandatoryKey(file) ==
    /\ file.kind = "json"
    /\ \/ "player" \notin DOMAIN file.data
       \/ \E k \in {"name", "hp", "max_hp"} : k \notin DOMAIN file.data["player"]

\* C26: loading a saved record that lacks a mandatory key (player, name, hp or
\* max_hp) is a load error: the error is printed, the loader hands its caller
\* no game, and the main menu stays without a game. A record that lacks only
\* optional keys loads, and the missing keys have their defaults: an empty
\* story_history, the location "Unknown", a max_history_turns of 10, ability
\* scores of 10 and level 1.
C26_LoadErrorsAndDefaults ==
    loaded # NoCall =>
        /\ LacksMandatoryKey(saved) =>
              /\ loaded.value = None
              /\ loaded.printed # ""
              /\ ~HasGame
              /\ pc = "menu"
        /\ (saved.kind = "json" /\ ~LacksMandatoryKey(saved)) =>
              LET data   == saved.data
                  player == saved.data["player"]
                  gs     == loaded.value
              IN  /\ gs # None
                  /\ HasGame
                  /\ "story_history" \notin DOMAIN data => gs.story_history = <<>>
                  /\ "current_location" \notin DOMAIN data => gs.current_location = "Unknown"
                  /\ "max_history_turns" \notin DOMAIN data => gs.max_history_turns = 10
                  /\ \A k \in {"strength", "dexterity", "constitution", "intelligence",
                               "wisdom", "charisma"} :
                         k \notin DOMAIN player => gs.player[k] = 10
                  /\ "level" \notin DOMAIN player => gs.player.level = 1

\* A record that has everything but the hp of the player was loaded: no game.
C26_Witness ==
    /\ loaded # NoCall
    /\ saved.kind = "json"
    /\ "player" \in DOMAIN saved.data
    /\ DOMAIN saved.data["player"] = PlayerKeys \ {"hp"}
    /\ loaded.value = None
    /\ loaded.printed = "Error loading save file"

\* The ability that governs a skill in the table of the eighteen skills, and
\* Strength for every other name.
GoverningAbility(skill) ==
    CASE skill \in {"Athletics"} -> "strength"
      [] skill \in {"Acrobatics", "Sleight of Hand", "Stealth"} -> "dexterity"
      [] skill \in {"Arcana", "History", "Investigation", "Nature", "Religion"}
            -> "intelligence"
      [] skill \in {"Animal Handling", "Insight", "Medicine", "Perception", "Survival"}
            -> "wisdom"
      [] skill \in {"Deception", "Intimidation", "Performance", "Persuasion"}
            -> "charisma"
      [] OTHER -> "strength"

\* C22: the skill modifier of a character is the modifier of the ability that
\* governs the skill in the fixed table of eighteen skills, plus the
\* proficiency bonus if and only if the skill is one of the character's
\* skill_proficiencies; a name that is not in the table does not fail and
\* takes the Strength modifier.
C22_SkillModifier ==
    dice.op = "get_skill_modifier" =>
        LET c == game_state.player
        IN  /\ ~dice.out.raised
            /\ dice.out.value
                 = FloorModifier(c[GoverningAbility(dice.skill)])
                   + (IF InList(dice.skill, c.skill_proficiencies)
                      THEN c.proficiency_bonus ELSE 0)

\* The modifier of a skill the character is not proficient in, and of a name
\* that is in no table, were asked for.
C22_Witness ==
    /\ dice.op = "get_skill_modifier"
    /\ dice.skill = "Juggling"
    /\ dice.out.value = -1

----------------------------------------------------------------------------
\* A session on a saved game: turns with the auto-save, the dice commands of
\* get_user_input, the way back to the menu and the next load.

\* The upper-case letter of every lower-case letter.
UpperOf ==
    [c \in {SubSeq(LowerLetters, i, i) : i \in 1..Len(LowerLetters)} |->
        LET i == CHOOSE j \in 1..Len(LowerLetters) : SubSeq(LowerLetters, j, j) = c
        IN  SubSeq(UpperLetters, i, i)]

\* str.title(): a letter after a letter is lowered, every other letter raised.
RECURSIVE TitleFrom(_, _)
TitleFrom(s, after_letter) ==
    IF s = "" THEN ""
    ELSE LET c      == SubSeq(s, 1, 1)
             letter == c \in DOMAIN LowerOf \/ c \in DOMAIN UpperOf
         IN  (IF ~letter THEN c
              ELSE IF after_letter THEN Lower1(c)
              ELSE IF c \in DOMAIN UpperOf THEN UpperOf[c] ELSE c)
             \o TitleFrom(SubSeq(s, 2, Len(s)), letter)

title(s) == TitleFrom(s, FALSE)

\* The head of get_user_input: the typed text is stripped; "/roll " and
\* "/check " in any case start a command whose argument is the stripped rest.
Command(text) ==
    LET typed == strip(text)
        low   == lower(typed)
    IN  IF Len(low) >= 6 /\ SubSeq(low, 1, 6) = "/roll "
        THEN [kind |-> "roll", arg |-> strip(SubSeq(typed, 7, Len(typed)))]
        ELSE IF Len(low) >= 7 /\ SubSeq(low, 1, 7) = "/check "
        THEN [kind |-> "check", arg |-> strip(SubSeq(typed, 8, Len(typed)))]
        ELSE [kind |-> "text", arg |-> typed]

\* The commands the player types: rolls that succeed, a roll of no dice, texts
\* that are no notation, and checks of skills of the table, in any case, and
\* of a skill that no table has.
CommandTexts ==
    {"/roll d8", " /ROLL 1d6-2 ", "/roll 0d6", "/roll  abc", "/roll 2d",
     "/check stealth", "/Check ARCANA", "/check sleight of hand", "/check juggling"}

\* Command and title of the texts of the model, computed once.
command_of == [text \in CommandTexts |-> Command(text)]
title_of   == [text \in CommandTexts |-> title(command_of[text].arg)]

\* DiceRoller.roll_from_notation; rolls are the dice that random.randint gives.
roll_from_notation(notation, rolls) ==
    LET parsed == parse_of[notation]
    IN  IF parsed.raised THEN parsed
        ELSE roll_dice(parsed.value[1], parsed.value[2], parsed.value[3], rolls)

\* The dice that roll_from_notation can get.
NotationRolls(notation) ==
    LET parsed == parse_of[notation]
    IN  IF parsed.raised THEN {<<>>}
        ELSE RandintLists(parsed.value[1], parsed.value[2])

\* A handler without the except clause: the error of the roll leaves it.
handle_dice_roll_uncaught(notation, rolls) ==
    LET result == roll_from_notation(notation, rolls)
    IN  [out       |-> result,
         panel     |-> IF result.raised THEN "none" ELSE "result",
         propagates |-> result.raised]

\* handle_dice_roll: the result is displayed; every exception ends in the
\* error panel.
handle_dice_roll(notation, rolls) ==
    LET result == roll_from_notation(notation, rolls)
    IN  [out       |-> result,
         panel     |-> IF result.raised THEN "Dice Roll Error" ELSE "result",
         propagates |-> FALSE]

\* handle_skill_check: a d20 with the modifier of the skill named in title
\* case; every exception ends in the error panel.
handle_skill_check(gs, skill, rolls) ==
    LET skill_modifier == get_skill_modifier(gs.player, skill)
        result         == roll_dice(1, 20, skill_modifier, rolls)
    IN  [skill_modifier |-> skill_modifier,
         out        |-> result,
         panel      |-> IF result.raised THEN "Skill Check Error"
                        ELSE IF result.value.total >= 15 THEN "SUCCESS!"
                        ELSE IF result.value.total >= 10 THEN "PARTIAL SUCCESS"
                        ELSE "FAILURE",
         propagates |-> FALSE]

\* The loop's get_user_input gets "/roll ...": the roll is handled and the
\* next input is asked for. An exception that left the handler would leave
\* the loop and end the program. The session has one dice command, at any
\* point of it.
RollCommand ==
    /\ pc = "playing"
    /\ ~check_game_over(game_state)
    /\ dice = NoDice
    /\ \E text \in CommandTexts :
          /\ command_of[text].kind = "roll"
          /\ \E rolls \in NotationRolls(command_of[text].arg) :
                LET handled == handle_dice_roll(command_of[text].arg, rolls)
                IN  /\ dice' = [op |-> "handle_dice_roll", text |-> text,
                                out |-> handled.out, panel |-> handled.panel]
                    /\ pc' = IF handled.propagates THEN "exit" ELSE pc
    /\ UNCHANGED <<setup_failed, fallback_mode, game_state, settings, turns, user_input,
                   backend_reply, was_fallback, ai_response, prev_state, raised,
                   saved, loaded>>

\* The loop's get_user_input gets "/check ...".
CheckCommand ==
    /\ pc = "playing"
    /\ ~check_game_over(game_state)
    /\ dice = NoDice
    /\ \E text \in CommandTexts :
          /\ command_of[text].kind = "check"
          /\ \E rolls \in RandintLists(1, 20) :
                LET handled == handle_skill_check(game_state, title_of[text], rolls)
                IN  /\ dice' = [op |-> "handle_skill_check", text |-> text,
                                skill |-> title_of[text],
                                skill_modifier |-> handled.skill_modifier,
                                out |-> handled.out, panel |-> handled.panel]
                    /\ pc' = IF handled.propagates THEN "exit" ELSE pc
    /\ UNCHANGED <<setup_failed, fallback_mode, game_state, settings, turns, user_input,
                   backend_reply, was_fallback, ai_response, prev_state, raised,
                   saved, loaded>>

\* The save files of the session: what save_to_json wrote for a hurt and an
\* unhurt character.
PlaySaves ==
    {save_to_json(gs) :
        gs \in GameStates({7, 20}, {default_inventory}, {"Village Square"}, {0}, 1)}

\* The replies of the session: no backend, a blow that takes every item of the
\* inventory, and a deadly blow.
SaveReplies ==
    {ChainRaises,
     Obj([narrative     |-> Str("A thief strikes"),
          location      |-> Str("Dark Cave"),
          hp_change     |-> Num(-3),
          items_added   |-> Arr(<<>>),
          items_removed |-> Arr(default_inventory)]),
     Obj([narrative |-> Str("A tale"), hp_change |-> Num(-999)])}

InitSave == InitMenu(PlaySaves)

TurnSave == turns < 1 /\ TurnWith({"dance", "heal"}, SaveReplies)

NextSave ==
    \/ LoadExistingGame \/ TurnSave \/ RollCommand \/ CheckCommand
    \/ GameOver \/ Quit

SpecSave == InitSave /\ [][NextSave]_vars

\* The step is a dice command: only the commands write the record of the
\* last dice call in a session.
IsDiceCommand == dice' # dice

\* C27: a /roll or /check command, whether it succeeds or fails (a text that
\* is no notation, a count below 1, a skill that no table has), leaves the
\* game state as it is (hp, max_hp, inventory, current_location and
\* story_history among it) and does not end the session: the loop goes on.
C27_DiceCommandsKeepState ==
    [][IsDiceCommand =>
        /\ game_state'.player.hp = game_state.player.hp
        /\ game_state'.player.max_hp = game_state.player.max_hp
        /\ game_state'.player.inventory = game_state.player.inventory
        /\ game_state'.current_location = game_state.current_location
        /\ game_state'.story_history = game_state.story_history
        /\ game_state' = game_state
        /\ saved' = saved
        /\ pc = "playing" /\ pc' = "playing"]_vars

\* A roll of no dice was asked for and refused, and the session is on.
C27_Witness ==
    /\ dice # NoDice
    /\ dice.op = "handle_dice_roll"
    /\ dice.text = "/roll 0d6"
    /\ dice.out.raised
    /\ dice.panel = "Dice Roll Error"
    /\ pc = "playing"

\* The step loads the save file and starts the loop.
IsLoad == pc = "menu" /\ pc' = "playing"

\* C28: save and load are a round trip: a save file that save_to_json wrote
\* for a game state reachable by play, the one with an empty inventory
\* included, loads as a game state with the fields of the file, which are the
\* fields of the state that was saved: every field of the character (hp,
\* max_hp, inventory, proficiencies, equipment and the rest), the history,
\* the location and max_history_turns.
C28_SaveLoadRoundTrip ==
    [][IsLoad =>
        LET data == saved.data
            gs   == loaded'.value
        IN  /\ \A k \in DOMAIN data["player"] : gs.player[k] = data["player"][k]
            /\ gs.story_history = data["story_history"]
            /\ gs.current_location = data["current_location"]
            /\ gs.max_history_turns = data["max_history_turns"]]_vars

----------------------------------------------------------------------------
\* A new game: character creation and the opening turn.

\* What the backend answers to the initial prompt: nothing, or an opening scene.
CreateReplies ==
    {ChainRaises,
     Obj([narrative     |-> Str("You arrive at dusk"),
          location      |-> Str("Village Square"),
          hp_change     |-> Num(0),
          items_added   |-> Arr(<<"Map">>),
          items_removed |-> Arr(<<>>)]),
     Obj([narrative |-> Str("A tale"), hp_change |-> Str("none")])}

\* create_new_game: the character of show_character_creation, a GameState at
\* the Village Square, then the opening turn that get_ai_response resolves
\* from the initial prompt and update_game_state applies, and the auto-save.
\* An exception of the opening turn is handled: the menu stays. One game is
\* created.
CreateNewGame ==
    /\ pc = "menu"
    /\ game_state = None
    /\ \E character_data \in CreatedCharacters, reply \in CreateReplies :
          LET player == Character(character_data)
              gs     == GameState(player, <<>>, "Village Square",
                                  settings.max_history_turns)
              prompt == initial_prompt(character_data)
          IN  \E new_location \in RandomChoices(gs, prompt) :
                 LET r == get_ai_response(fallback_mode, gs, prompt, reply, new_location)
                     u == update_game_state(gs, r.response,
                                            "Begin adventure as " \o character_data.name,
                                            settings.max_history_turns)
                 IN  /\ fallback_mode' = r.fallback_mode
                     /\ game_state' = u.game_state
                     /\ raised' = u.raised
                     /\ ai_response' = r.response
                     /\ user_input' = prompt
                     /\ backend_reply' = reply
                     /\ was_fallback' = fallback_mode
                     /\ prev_state' = gs
                     /\ pc' = IF u.raised THEN "menu" ELSE "playing"
                     /\ saved' = IF settings.auto_save /\ ~u.raised
                                 THEN save_to_json(u.game_state) ELSE saved
    /\ UNCHANGED <<setup_failed, settings, turns, dice, loaded>>

InitCreate == InitMenu({NoFile})

NextCreate == CreateNewGame

SpecCreate == InitCreate /\ [][NextCreate]_vars

\* The hit die of a class.
HitDieOf(character_class) ==
    CASE character_class = "Wizard" -> 6
      [] character_class \in {"Rogue", "Cleric"} -> 8
      [] character_class \in {"Fighter", "Ranger"} -> 10
      [] character_class = "Barbarian" -> 12

C29_OpeningTurnKeepsStart ==
    (HasGame /\ was_fallback) =>
        /\ game_state.player.hp = game_state.player.max_hp
        /\ game_state.current_location = "Village Square"

----------------------------------------------------------------------------
\* C30: in a turn of the Connected mode whose backend reply is a JSON object
\* without a location key (and with an hp_change that can be applied), the
\* default fill and update_game_state set current_location to "Unknown": the
\* location before the turn is overwritten. A reply whose location is the empty
\* string leaves current_location as it was.
C30_MissingLocationIsUnknown ==
    (/\ Called
     /\ ~was_fallback
     /\ backend_reply.t = "obj"
     /\ Get(backend_reply, "hp_change", Num(0)).t = "num") =>
        /\ "location" \notin DOMAIN backend_reply.v =>
              game_state.current_location = "Unknown"
        /\ ("location" \in DOMAIN backend_reply.v
              /\ backend_reply.v["location"].t = "str"
              /\ backend_reply.v["location"].v = "") =>
              game_state.current_location = prev_state.current_location

\* A reply without a location key was applied in the Dark Cave, which is now
\* "Unknown".
C30_Witness ==
    /\ Called
    /\ ~was_fallback
    /\ backend_reply.t = "obj"
    /\ "location" \notin DOMAIN backend_reply.v
    /\ "hp_change" \in DOMAIN backend_reply.v
    /\ backend_reply.v["hp_change"] = Num(50)
    /\ prev_state.current_location = "Dark Cave"
    /\ game_state.current_location = "Unknown"

====
